---- MODULE Spec2Model ----
(***************************************************************************)
(* Model of the bitknotsrs node core: the RocksDB-backed Storage           *)
(* (src/storage.rs) and the four actix actors (src/actors/*.rs) started by *)
(* main (src/main.rs).                                                     *)
(*                                                                         *)
(* Option<T> is a tuple: <<>> is None, <<x>> is Some(x).  Byte strings are *)
(* sequences of small naturals.                                            *)
(***************************************************************************)
EXTENDS Integers, Sequences, FiniteSets, TLC

VARIABLES
    db,       \* Storage.db: column family name -> (key -> value)
    last,     \* the last direct Storage call: its arguments and what it returned
    sent,     \* sequence of the messages sent so far; a request's id is its index
    mailbox,  \* actor -> sequence of request ids waiting in its mailbox
    resp      \* request id -> sequence of the responses delivered to its caller

vars == <<db, last, sent, mailbox, resp>>

-----------------------------------------------------------------------------
(* Storage: src/storage.rs                                                 *)

CF_BLOCKS == "blocks"
CF_TRANSACTIONS == "transactions"
CF_UTXOS == "utxos"
CF_CHAIN_STATE == "chain_state"
CF_MEMPOOL == "mempool"
CF_PEERS == "peers"

\* The column families Storage::new opens the database with.
ColumnFamilies ==
    {CF_BLOCKS, CF_TRANSACTIONS, CF_UTXOS, CF_CHAIN_STATE, CF_MEMPOOL, CF_PEERS}

\* The database as Storage::new leaves it: every column family, each empty.
EmptyDb == [cf \in ColumnFamilies |-> <<>>]

\* Storage::get_cf: the handle of a column family, or StorageError::Corruption.
get_cf(d, cf_name) == IF cf_name \in DOMAIN d THEN "Ok" ELSE "Corruption"

\* rocksdb put_cf / delete_cf / get_cf on one column family (a keyed map).
put_cf(m, key, value) ==
    [k \in (DOMAIN m) \cup {key} |-> IF k = key THEN value ELSE m[k]]
delete_cf(m, key) == [k \in (DOMAIN m) \ {key} |-> m[k]]
get_cf_value(m, key) == IF key \in DOMAIN m THEN <<m[key]>> ELSE <<>>

\* Mutant of Storage::put: the value is stored without its last byte.
put_truncating(d, cf_name, key, value, io) ==
    IF get_cf(d, cf_name) # "Ok" THEN [db |-> d, res |-> "Corruption"]
    ELSE IF ~io THEN [db |-> d, res |-> "RocksDb"]
    ELSE [db |-> [d EXCEPT ![cf_name] =
                     put_cf(@, key, SubSeq(value, 1, Len(value) - 1))],
          res |-> "Ok"]

\* Mutant of Storage::put: a key that is already stored keeps its value.
put_keeps_first(d, cf_name, key, value, io) ==
    IF get_cf(d, cf_name) # "Ok" THEN [db |-> d, res |-> "Corruption"]
    ELSE IF ~io THEN [db |-> d, res |-> "RocksDb"]
    ELSE IF key \in DOMAIN d[cf_name] THEN [db |-> d, res |-> "Ok"]
    ELSE [db |-> [d EXCEPT ![cf_name] = put_cf(@, key, value)], res |-> "Ok"]

\* Mutant of Storage::put: a column family that is missing is created.
put_creates_region(d, cf_name, key, value, io) ==
    IF ~io THEN [db |-> d, res |-> "RocksDb"]
    ELSE [db |-> [cf \in (DOMAIN d) \cup {cf_name} |->
                    IF cf = cf_name
                    THEN put_cf(IF cf \in DOMAIN d THEN d[cf] ELSE <<>>, key, value)
                    ELSE d[cf]],
          res |-> "Ok"]

\* Mutant of Storage::put: the entry is written to every column family.
put_all_regions(d, cf_name, key, value, io) ==
    IF get_cf(d, cf_name) # "Ok" THEN [db |-> d, res |-> "Corruption"]
    ELSE IF ~io THEN [db |-> d, res |-> "RocksDb"]
    ELSE [db |-> [cf \in DOMAIN d |-> put_cf(d[cf], key, value)], res |-> "Ok"]

\* Storage::put.  io is whether RocksDB carries the write out.
put(d, cf_name, key, value, io) ==
    IF get_cf(d, cf_name) # "Ok" THEN [db |-> d, res |-> "Corruption"]
    ELSE IF ~io THEN [db |-> d, res |-> "RocksDb"]
    ELSE [db |-> [d EXCEPT ![cf_name] = put_cf(@, key, value)], res |-> "Ok"]

\* Mutant of Storage::get: an absent key is reported as an error.
get_absent_is_error(d, cf_name, key, io) ==
    IF get_cf(d, cf_name) # "Ok" THEN [res |-> "Corruption", val |-> <<>>]
    ELSE IF ~io THEN [res |-> "RocksDb", val |-> <<>>]
    ELSE IF key \notin DOMAIN d[cf_name] THEN [res |-> "Corruption", val |-> <<>>]
    ELSE [res |-> "Ok", val |-> get_cf_value(d[cf_name], key)]

\* Storage::get.
get(d, cf_name, key, io) ==
    IF get_cf(d, cf_name) # "Ok" THEN [res |-> "Corruption", val |-> <<>>]
    ELSE IF ~io THEN [res |-> "RocksDb", val |-> <<>>]
    ELSE [res |-> "Ok", val |-> get_cf_value(d[cf_name], key)]

\* Mutants of Storage::delete: nothing is removed; an absent key is an error.
delete_noop(d, cf_name, key, io) ==
    IF get_cf(d, cf_name) # "Ok" THEN [db |-> d, res |-> "Corruption"]
    ELSE IF ~io THEN [db |-> d, res |-> "RocksDb"]
    ELSE [db |-> d, res |-> "Ok"]

delete_absent_is_error(d, cf_name, key, io) ==
    IF get_cf(d, cf_name) # "Ok" THEN [db |-> d, res |-> "Corruption"]
    ELSE IF ~io THEN [db |-> d, res |-> "RocksDb"]
    ELSE IF key \notin DOMAIN d[cf_name] THEN [db |-> d, res |-> "Corruption"]
    ELSE [db |-> [d EXCEPT ![cf_name] = delete_cf(@, key)], res |-> "Ok"]

\* Storage::delete.
delete(d, cf_name, key, io) ==
    IF get_cf(d, cf_name) # "Ok" THEN [db |-> d, res |-> "Corruption"]
    ELSE IF ~io THEN [db |-> d, res |-> "RocksDb"]
    ELSE [db |-> [d EXCEPT ![cf_name] = delete_cf(@, key)], res |-> "Ok"]

\* Mutant of Storage::exists: a key that holds the empty value is reported
\* as absent.
exists_nonempty_only(d, cf_name, key, io) ==
    IF get_cf(d, cf_name) # "Ok" THEN [res |-> "Corruption", val |-> FALSE]
    ELSE IF ~io THEN [res |-> "RocksDb", val |-> FALSE]
    ELSE [res |-> "Ok", val |-> get_cf_value(d[cf_name], key) \notin {<<>>, <<<<>>>>}]

\* Storage::exists.
exists(d, cf_name, key, io) ==
    IF get_cf(d, cf_name) # "Ok" THEN [res |-> "Corruption", val |-> FALSE]
    ELSE IF ~io THEN [res |-> "RocksDb", val |-> FALSE]
    ELSE [res |-> "Ok", val |-> get_cf_value(d[cf_name], key) # <<>>]

\* The bytes one column family holds (what RocksDB reports as its size).
RECURSIVE SizeOf(_)
SizeOf(m) ==
    IF DOMAIN m = {} THEN 0
    ELSE LET k == CHOOSE x \in DOMAIN m : TRUE
         IN Len(k) + Len(m[k]) + SizeOf(delete_cf(m, k))

\* Storage::get_database_size: the sizes of the six column families added
\* up; one whose handle get_cf does not find is left out of the sum.
RECURSIVE TotalSize(_, _)
TotalSize(d, cfs) ==
    IF cfs = {} THEN 0
    ELSE LET cf_name == CHOOSE c \in cfs : TRUE
         IN (IF get_cf(d, cf_name) = "Ok" THEN SizeOf(d[cf_name]) ELSE 0)
                + TotalSize(d, cfs \ {cf_name})

get_database_size(d) == [res |-> "Ok", val |-> TotalSize(d, ColumnFamilies)]

\* Storage::compact: compacts each column family whose handle get_cf finds;
\* the stored entries stay as they are.
compact(d) == [db |-> d, res |-> "Ok"]

-----------------------------------------------------------------------------
(* Direct callers of Storage (as the tests of src/storage.rs call it)      *)

\* Most entries the modelled database holds at once.
MaxEntries == 2

\* A region name no column family has (the spec's spelling of chain_state).
UnknownCf == "chain-state"

\* What the direct callers pass: the regions the tests of src/storage.rs use
\* through put/get/exists and the utxo and mempool wrappers, and the unknown one.
CfNames == {CF_BLOCKS, CF_UTXOS, CF_MEMPOOL, UnknownCf}
Keys == {<<0>>, <<1>>}
Values == {<<>>, <<7, 9>>}

RECURSIVE EntryCountIn(_, _)
EntryCountIn(d, cfs) ==
    IF cfs = {} THEN 0
    ELSE LET cf == CHOOSE c \in cfs : TRUE
         IN Cardinality(DOMAIN d[cf]) + EntryCountIn(d, cfs \ {cf})

EntryCount(d) == EntryCountIn(d, DOMAIN d)

Present(d, cf_name, key) == cf_name \in DOMAIN d /\ key \in DOMAIN d[cf_name]

NoCall ==
    [cf |-> "", key |-> <<>>, value |-> <<>>, io |-> TRUE, res |-> "Ok",
     op |-> "none", pre |-> FALSE, out |-> <<>>, found |-> FALSE, old |-> <<>>]

Call(op, cf, key, value, io, res, out, found) ==
    [cf |-> cf, key |-> key, value |-> value, io |-> io, res |-> res,
     op |-> op, pre |-> Present(db, cf, key), out |-> out, found |-> found,
     old |-> IF Present(db, cf, key) THEN <<db[cf][key]>> ELSE <<>>]

ActorsIdle == UNCHANGED <<sent, mailbox, resp>>

Put(cf, key, value, io) ==
    /\ ActorsIdle
    /\ Present(db, cf, key) \/ EntryCount(db) < MaxEntries
    /\ LET r == put(db, cf, key, value, io) IN
        /\ db' = r.db
        /\ last' = Call("put", cf, key, value, io, r.res, <<>>, FALSE)

Get(cf, key, io) ==
    /\ ActorsIdle
    /\ LET r == get(db, cf, key, io) IN
        /\ db' = db
        /\ last' = Call("get", cf, key, <<>>, io, r.res, r.val, FALSE)

Delete(cf, key, io) ==
    /\ ActorsIdle
    /\ LET r == delete(db, cf, key, io) IN
        /\ db' = r.db
        /\ last' = Call("delete", cf, key, <<>>, io, r.res, <<>>, FALSE)

Exists(cf, key, io) ==
    /\ ActorsIdle
    /\ LET r == exists(db, cf, key, io) IN
        /\ db' = db
        /\ last' = Call("exists", cf, key, <<>>, io, r.res, <<>>, r.val)

Actors == {"chain", "network", "mempool", "storage"}

Init ==
    /\ db = EmptyDb
    /\ last = NoCall
    /\ sent = <<>>
    /\ mailbox = [a \in Actors |-> <<>>]
    /\ resp = <<>>

StoreNext ==
    \/ \E cf \in CfNames, key \in Keys, value \in Values, io \in BOOLEAN :
          Put(cf, key, value, io)
    \/ \E cf \in CfNames, key \in Keys, io \in BOOLEAN : Get(cf, key, io)
    \/ \E cf \in CfNames, key \in Keys, io \in BOOLEAN : Delete(cf, key, io)
    \/ \E cf \in CfNames, key \in Keys, io \in BOOLEAN : Exists(cf, key, io)

SpecStore == Init /\ [][StoreNext]_vars

GetDatabaseSize ==
    /\ ActorsIdle
    /\ LET r == get_database_size(db) IN
        /\ db' = db
        /\ last' = Call("get_database_size", "", <<>>, <<>>, TRUE, r.res, <<r.val>>, FALSE)

Compact ==
    /\ ActorsIdle
    /\ LET r == compact(db) IN
        /\ db' = r.db
        /\ last' = Call("compact", "", <<>>, <<>>, TRUE, r.res, <<>>, FALSE)

\* Every operation of the store, on every column family and on the unknown
\* name, with one key and one value.
RegionNames == ColumnFamilies \cup {UnknownCf}

RegionsNext ==
    \/ \E cf \in RegionNames, io \in BOOLEAN : Put(cf, <<0>>, <<7, 9>>, io)
    \/ \E cf \in RegionNames, io \in BOOLEAN : Get(cf, <<0>>, io)
    \/ \E cf \in RegionNames, io \in BOOLEAN : Delete(cf, <<0>>, io)
    \/ \E cf \in RegionNames, io \in BOOLEAN : Exists(cf, <<0>>, io)
    \/ GetDatabaseSize
    \/ Compact

SpecRegions == Init /\ [][RegionsNext]_vars

\* A database that was set up with one of the six column families missing.
InitMissingRegion ==
    /\ \E missing \in ColumnFamilies :
          db = [cf \in ColumnFamilies \ {missing} |-> <<>>]
    /\ last = NoCall
    /\ sent = <<>>
    /\ mailbox = [a \in Actors |-> <<>>]
    /\ resp = <<>>

SpecMissingRegion == InitMissingRegion /\ [][RegionsNext]_vars

-----------------------------------------------------------------------------
(* Blocks and transactions (the bitcoin crate's Block, Transaction,        *)
(* consensus::serialize / deserialize, block_hash and txid), as the        *)
(* storage actor uses them.  A hash is one number below 251.                *)

\* A hash of a byte string: a polynomial digest of its bytes.
RECURSIVE Digest(_)
Digest(s) ==
    IF s = <<>> THEN 7
    ELSE (Digest(SubSeq(s, 1, Len(s) - 1)) * 31 + s[Len(s)] + 1) % 251

RECURSIVE Concat(_)
Concat(ss) == IF ss = <<>> THEN <<>> ELSE Head(ss) \o Concat(Tail(ss))

\* consensus::serialize(&Transaction): inputs, outputs, lock time.
SerializeTx(tx) ==
    <<Len(tx.input)>>
        \o Concat([i \in 1..Len(tx.input) |-> <<tx.input[i].txid, tx.input[i].vout>>])
        \o <<Len(tx.output)>> \o tx.output \o <<tx.lock_time>>

\* Transaction::txid, and its to_byte_array.
Txid(tx) == Digest(SerializeTx(tx))
ToByteArray(hash) == <<hash>>

\* Mutant of consensus::serialize(&Block): the transactions are left out.
SerializeBlock_without_txdata(block) ==
    <<block.header.prev_blockhash, block.header.merkle_root, block.header.nonce, 0>>

\* consensus::serialize(&Block): the header fields, then the transactions.
SerializeBlock(block) ==
    <<block.header.prev_blockhash, block.header.merkle_root, block.header.nonce,
      Len(block.txdata)>>
        \o Concat([i \in 1..Len(block.txdata) |-> SerializeTx(block.txdata[i])])

\* Block::block_hash: the hash of the header alone.
BlockHash(block) ==
    Digest(<<block.header.prev_blockhash, block.header.merkle_root,
             block.header.nonce>>)

NoTx == [input |-> <<>>, output |-> <<>>, lock_time |-> 0]
DecodeFailed == [tx |-> NoTx, ok |-> FALSE, txs |-> <<>>, next |-> 0]

\* The transaction encoded in s from position p on, and where it ends.
DecodeTxAt(s, p) ==
    IF p > Len(s) THEN DecodeFailed
    ELSE LET nin == s[p]
             q == p + 1 + 2 * nin
         IN IF q > Len(s) THEN DecodeFailed
            ELSE LET nout == s[q]
                     e == q + 1 + nout
                 IN IF e > Len(s) THEN DecodeFailed
                    ELSE [tx |-> [input |-> [i \in 1..nin |->
                                      [txid |-> s[p + 2 * i - 1], vout |-> s[p + 2 * i]]],
                                  output |-> [i \in 1..nout |-> s[q + i]],
                                  lock_time |-> s[e]],
                          ok |-> TRUE,
                          txs |-> <<>>,
                          next |-> e + 1]

\* n transactions encoded in s one after another from position p on.
RECURSIVE DecodeTxsAt(_, _, _)
DecodeTxsAt(s, p, n) ==
    IF n = 0 THEN [tx |-> NoTx, ok |-> TRUE, txs |-> <<>>, next |-> p]
    ELSE LET first == DecodeTxAt(s, p) IN
         IF ~first.ok THEN DecodeFailed
         ELSE LET rest == DecodeTxsAt(s, first.next, n - 1) IN
              IF ~rest.ok THEN DecodeFailed
              ELSE [tx |-> NoTx, ok |-> TRUE, txs |-> <<first.tx>> \o rest.txs,
                    next |-> rest.next]

\* consensus::deserialize::<Transaction>: Some(tx), or None when the bytes
\* are not one whole transaction.
DeserializeTx(s) ==
    LET d == DecodeTxAt(s, 1) IN
    IF d.ok /\ d.next = Len(s) + 1 THEN <<d.tx>> ELSE <<>>

\* consensus::deserialize::<Block>.
DeserializeBlock(s) ==
    IF Len(s) < 4 THEN <<>>
    ELSE LET d == DecodeTxsAt(s, 5, s[4]) IN
         IF d.ok /\ d.next = Len(s) + 1
         THEN <<[header |-> [prev_blockhash |-> s[1], merkle_root |-> s[2], nonce |-> s[3]],
                 txdata |-> d.txs]>>
         ELSE <<>>

\* The merkle root a block's header commits to its transactions with.
MerkleRoot(txdata) == Digest([i \in 1..Len(txdata) |-> Txid(txdata[i])])

MakeBlock(prev, txdata, nonce) ==
    [header |-> [prev_blockhash |-> prev, merkle_root |-> MerkleRoot(txdata),
                 nonce |-> nonce],
     txdata |-> txdata]

OutPoint(tx, vout) == [txid |-> Txid(tx), vout |-> vout]

\* The transactions and blocks the callers submit: T1 spends nothing and
\* creates one output; T2 and T3 both spend that output.
T1 == [input |-> <<>>, output |-> <<50>>, lock_time |-> 0]
T2 == [input |-> <<OutPoint(T1, 0)>>, output |-> <<20>>, lock_time |-> 0]
T3 == [input |-> <<OutPoint(T1, 0)>>, output |-> <<30>>, lock_time |-> 0]
Txs == {T1, T2, T3}

\* The genesis block has the all-zero hash as its parent.
Genesis == MakeBlock(0, <<>>, 0)
B1 == MakeBlock(BlockHash(Genesis), <<T1>>, 0)
B2 == MakeBlock(BlockHash(B1), <<T2>>, 0)
Blocks == {Genesis, B2, B1}

-----------------------------------------------------------------------------
(* The actors: src/actors/*.rs, started by main (src/main.rs)              *)

\* Most requests the callers send in one run.
MaxRequests == 2

Ok(val) == [res |-> "Ok", val |-> val]
Err(e) == [res |-> e, val |-> <<>>]

RequestIds == 1..Len(sent)
Answered(id) == resp[id] # <<>>

\* Addr::send: the message joins the end of the actor's mailbox; its caller
\* holds the request's id and waits for the response.
SendWithin(msg, limit) ==
    /\ Len(sent) < limit
    /\ sent' = Append(sent, msg)
    /\ mailbox' = [mailbox EXCEPT ![msg.to] = Append(@, Len(sent) + 1)]
    /\ resp' = Append(resp, <<>>)
    /\ UNCHANGED <<db, last>>

Send(msg) == SendWithin(msg, MaxRequests)

\* Mutant of NextRequest: the newest message is taken first.
NextRequest_newest(a) == mailbox[a][Len(mailbox[a])]

\* The message an actor's context hands to its handler next: the oldest.
NextRequest(a) == Head(mailbox[a])

\* Mutant of Handles: a message is handled whether or not its caller still
\* waits for the response.
Handles_dropped_too(a, kind) ==
    /\ mailbox[a] # <<>>
    /\ sent[NextRequest(a)].kind = kind

\* An actor's context has a message of this kind to handle next. The
\* envelope of a request whose caller dropped it is not handed to a handler.
Handles(a, kind) ==
    /\ mailbox[a] # <<>>
    /\ sent[NextRequest(a)].kind = kind
    /\ ~sent[NextRequest(a)].closed

\* The handler returned r: the message leaves the mailbox and r is the one
\* response its caller receives.
Return(a, r) ==
    /\ mailbox' = [mailbox EXCEPT ![a] =
                      SelectSeq(@, LAMBDA id : id # NextRequest(a))]
    /\ resp' = [resp EXCEPT ![NextRequest(a)] = Append(@, r)]
    /\ UNCHANGED <<sent, last>>

Msg(a) == sent[NextRequest(a)]

\* Mutant of Handler<StoreBlock>: the block is also filed under its hash in
\* the transactions column family.
StorageStoreBlock_also_in_transactions ==
    /\ Handles("storage", "StoreBlock")
    /\ \E io \in BOOLEAN :
        LET block_hash == BlockHash(Msg("storage").block)
            block_data == SerializeBlock(Msg("storage").block)
            r == put(db, CF_BLOCKS, ToByteArray(block_hash), block_data, io)
        IN /\ db' = put(r.db, CF_TRANSACTIONS, ToByteArray(block_hash),
                        block_data, io).db
           /\ Return("storage", IF r.res = "Ok" THEN Ok(<<>>) ELSE Err(r.res))

\* Handler<StoreBlock> for StorageActor.
StorageStoreBlock ==
    /\ Handles("storage", "StoreBlock")
    /\ \E io \in BOOLEAN :
        LET block_hash == BlockHash(Msg("storage").block)
            block_data == SerializeBlock(Msg("storage").block)
            r == put(db, CF_BLOCKS, ToByteArray(block_hash), block_data, io)
        IN /\ db' = r.db
           /\ Return("storage", IF r.res = "Ok" THEN Ok(<<>>) ELSE Err(r.res))

\* Mutant of Handler<GetBlock>: for a hash that is not stored the handler
\* takes the message and never answers it.
StorageGetBlock_unanswered_when_absent ==
    /\ Handles("storage", "GetBlock")
    /\ \E io \in BOOLEAN :
        LET r == get(db, CF_BLOCKS, ToByteArray(Msg("storage").hash), io) IN
        /\ db' = db
        /\ IF r.res = "Ok" /\ r.val = <<>>
           THEN /\ mailbox' = [mailbox EXCEPT !["storage"] = Tail(@)]
                /\ UNCHANGED <<sent, last, resp>>
           ELSE Return("storage",
                       IF r.res # "Ok" THEN Err(r.res)
                       ELSE IF DeserializeBlock(r.val[1]) = <<>> THEN Err("Serialization")
                       ELSE Ok(DeserializeBlock(r.val[1])))

\* Handler<GetBlock> for StorageActor.
StorageGetBlock ==
    /\ Handles("storage", "GetBlock")
    /\ \E io \in BOOLEAN :
        LET r == get(db, CF_BLOCKS, ToByteArray(Msg("storage").hash), io) IN
        /\ db' = db
        /\ Return("storage",
                  IF r.res # "Ok" THEN Err(r.res)
                  ELSE IF r.val = <<>> THEN Ok(<<>>)
                  ELSE IF DeserializeBlock(r.val[1]) = <<>> THEN Err("Serialization")
                  ELSE Ok(DeserializeBlock(r.val[1])))

\* Handler<AddTransaction> for StorageActor.
StorageAddTransaction ==
    /\ Handles("storage", "AddTransaction")
    /\ \E io \in BOOLEAN :
        LET txid == Txid(Msg("storage").tx)
            tx_data == SerializeTx(Msg("storage").tx)
            r == put(db, CF_TRANSACTIONS, ToByteArray(txid), tx_data, io)
        IN /\ db' = r.db
           /\ Return("storage", IF r.res = "Ok" THEN Ok(<<>>) ELSE Err(r.res))

\* Mutant of Handler<GetTransaction>: bytes that do not decode are answered
\* like an absent key.
StorageGetTransaction_undecodable_is_absent ==
    /\ Handles("storage", "GetTransaction")
    /\ \E io \in BOOLEAN :
        LET r == get(db, CF_TRANSACTIONS, ToByteArray(Msg("storage").txid), io) IN
        /\ db' = db
        /\ Return("storage",
                  IF r.res # "Ok" THEN Err(r.res)
                  ELSE IF r.val = <<>> THEN Ok(<<>>)
                  ELSE Ok(DeserializeTx(r.val[1])))

\* Handler<GetTransaction> for StorageActor.
StorageGetTransaction ==
    /\ Handles("storage", "GetTransaction")
    /\ \E io \in BOOLEAN :
        LET r == get(db, CF_TRANSACTIONS, ToByteArray(Msg("storage").txid), io) IN
        /\ db' = db
        /\ Return("storage",
                  IF r.res # "Ok" THEN Err(r.res)
                  ELSE IF r.val = <<>> THEN Ok(<<>>)
                  ELSE IF DeserializeTx(r.val[1]) = <<>> THEN Err("Serialization")
                  ELSE Ok(DeserializeTx(r.val[1])))

ZeroHashString == "0000000000000000000000000000000000000000000000000000000000000000"

\* A block hash as the log lines and ChainInfo show it: a string, the all-zero
\* string for the all-zero hash.
HashHex(hash) == IF hash = 0 THEN ZeroHashString ELSE ToString(hash)

\* Handler<StoreBlock> for ChainActor: logs the block, changes nothing.
ChainStoreBlock ==
    /\ Handles("chain", "StoreBlock")
    /\ db' = db
    /\ Return("chain", Ok(<<>>))

\* Handler<GetChainInfo> for ChainActor: a fixed record.
ChainGetChainInfo ==
    /\ Handles("chain", "GetChainInfo")
    /\ db' = db
    /\ Return("chain",
              Ok(<<[chain |-> "regtest", blocks |-> 0, headers |-> 0,
                    best_block_hash |-> ZeroHashString,
                    initial_block_download |-> FALSE,
                    chain_work |-> ZeroHashString,
                    size_on_disk |-> 0, pruned |-> FALSE]>>))

\* Handler<AddToMempool> for MempoolActor: logs the transaction, keeps nothing.
MempoolAddToMempool ==
    /\ Handles("mempool", "AddToMempool")
    /\ db' = db
    /\ Return("mempool", Ok(<<>>))

\* Handler<GetFromMempool> for MempoolActor: always None.
MempoolGetFromMempool ==
    /\ Handles("mempool", "GetFromMempool")
    /\ db' = db
    /\ Return("mempool", Ok(<<>>))

\* Handler<GetMempoolTxids> for MempoolActor: always the empty list.
MempoolGetMempoolTxids ==
    /\ Handles("mempool", "GetMempoolTxids")
    /\ db' = db
    /\ Return("mempool", Ok(<<>>))

\* Handler<GetMempoolInfo> for MempoolActor: a fixed record.
MempoolGetMempoolInfo ==
    /\ Handles("mempool", "GetMempoolInfo")
    /\ db' = db
    /\ Return("mempool",
              Ok(<<[size |-> 0, bytes |-> 0, usage |-> 0, max_mempool |-> 300000000]>>))

\* Handler<NewPeer> for NetworkActor: logs the peer, records nothing.
NetworkNewPeer ==
    /\ Handles("network", "NewPeer")
    /\ db' = db
    /\ Return("network", Ok(<<>>))

\* Mutant of NetworkDisconnectPeer: an id no NewPeer named is an error.
NetworkDisconnectPeer_unknown_is_error ==
    /\ Handles("network", "DisconnectPeer")
    /\ db' = db
    /\ Return("network",
              IF \E i \in 1..(NextRequest("network") - 1) :
                    /\ sent[i].kind = "NewPeer"
                    /\ sent[i].peer_id = Msg("network").peer_id
              THEN Ok(<<>>)
              ELSE Err("PeerDisconnected"))

\* Handler<DisconnectPeer> for NetworkActor.
NetworkDisconnectPeer ==
    /\ Handles("network", "DisconnectPeer")
    /\ db' = db
    /\ Return("network", Ok(<<>>))

\* Handler<GetPeers> for NetworkActor: always the empty list.
NetworkGetPeers ==
    /\ Handles("network", "GetPeers")
    /\ db' = db
    /\ Return("network", Ok(<<>>))

\* Handler<BroadcastTransaction> for NetworkActor.
NetworkBroadcastTransaction ==
    /\ Handles("network", "BroadcastTransaction")
    /\ db' = db
    /\ Return("network", Ok(<<>>))

\* Handler<BroadcastBlock> for NetworkActor.
NetworkBroadcastBlock ==
    /\ Handles("network", "BroadcastBlock")
    /\ db' = db
    /\ Return("network", Ok(<<>>))

\* One message of an actor's mailbox is handled.
Handle(a) ==
    \/ a = "storage" /\ StorageStoreBlock
    \/ a = "storage" /\ StorageGetBlock
    \/ a = "storage" /\ StorageAddTransaction
    \/ a = "storage" /\ StorageGetTransaction
    \/ a = "chain" /\ ChainStoreBlock
    \/ a = "chain" /\ ChainGetChainInfo
    \/ a = "mempool" /\ MempoolAddToMempool
    \/ a = "mempool" /\ MempoolGetFromMempool
    \/ a = "mempool" /\ MempoolGetMempoolTxids
    \/ a = "mempool" /\ MempoolGetMempoolInfo
    \/ a = "network" /\ NetworkNewPeer
    \/ a = "network" /\ NetworkDisconnectPeer
    \/ a = "network" /\ NetworkGetPeers
    \/ a = "network" /\ NetworkBroadcastTransaction
    \/ a = "network" /\ NetworkBroadcastBlock

\* The messages of src/actors/mod.rs, with the payloads the callers send.
Message(to, kind) ==
    [tx |-> NoTx, txid |-> 0, hash |-> 0, block |-> Genesis,
     to |-> to, kind |-> kind, closed |-> FALSE,
     peer_id |-> "", fee |-> 0, fee_rate |-> 0]

PeerIds == {"peer1"}

SendStoreBlock(blocks) ==
    \E to \in {"chain", "storage"}, b \in blocks :
        Send([Message(to, "StoreBlock") EXCEPT !.block = b])
SendGetBlock(blocks) ==
    \E b \in blocks : Send([Message("storage", "GetBlock") EXCEPT !.hash = BlockHash(b)])
SendAddTransaction(txs) ==
    \E tx \in txs : Send([Message("storage", "AddTransaction") EXCEPT !.tx = tx])
SendGetTransaction(txs) ==
    \E tx \in txs :
        Send([Message("storage", "GetTransaction") EXCEPT !.txid = Txid(tx)])
SendGetChainInfo == Send(Message("chain", "GetChainInfo"))
SendAddToMempool(txs) ==
    \E tx \in txs : Send([Message("mempool", "AddToMempool") EXCEPT !.tx = tx])
SendGetFromMempool(txs) ==
    \E tx \in txs :
        Send([Message("mempool", "GetFromMempool") EXCEPT !.txid = Txid(tx)])
SendGetMempoolTxids == Send(Message("mempool", "GetMempoolTxids"))
SendGetMempoolInfo == Send(Message("mempool", "GetMempoolInfo"))
SendNewPeer ==
    \E p \in PeerIds : Send([Message("network", "NewPeer") EXCEPT !.peer_id = p])
SendDisconnectPeer ==
    \E p \in PeerIds : Send([Message("network", "DisconnectPeer") EXCEPT !.peer_id = p])
SendGetPeers == Send(Message("network", "GetPeers"))
SendBroadcastTransaction(txs) ==
    \E tx \in txs : Send([Message("network", "BroadcastTransaction") EXCEPT !.tx = tx])
SendBroadcastBlock(blocks) ==
    \E b \in blocks : Send([Message("network", "BroadcastBlock") EXCEPT !.block = b])

\* The messages that carry no block or transaction.
SendPlain ==
    \/ SendGetChainInfo
    \/ SendGetMempoolTxids
    \/ SendGetMempoolInfo
    \/ SendNewPeer
    \/ SendDisconnectPeer
    \/ SendGetPeers

Next ==
    \/ SendStoreBlock(Blocks)
    \/ SendGetBlock({Genesis, B1})
    \/ SendAddTransaction({T1, T2})
    \/ SendGetTransaction({T1, T2})
    \/ SendAddToMempool({T2, T3})
    \/ SendGetFromMempool({T1, T2})
    \/ SendBroadcastTransaction({T2})
    \/ SendBroadcastBlock({B1})
    \/ SendPlain
    \/ \E a \in Actors : Handle(a)

Spec == Init /\ [][Next]_vars

\* The same system with one block and one transaction as payloads.
NextOnePayload ==
    \/ SendStoreBlock({B1})
    \/ SendGetBlock({B1})
    \/ SendAddTransaction({T2})
    \/ SendGetTransaction({T2})
    \/ SendAddToMempool({T2})
    \/ SendGetFromMempool({T2})
    \/ SendBroadcastTransaction({T2})
    \/ SendBroadcastBlock({B1})
    \/ SendPlain
    \/ \E a \in Actors : Handle(a)

\* The arbiter polls every started actor: a message waiting in a mailbox is
\* eventually handled.
FairSpec ==
    Init /\ [][NextOnePayload]_vars /\ \A a \in Actors : WF_vars(Handle(a))

\* Bytes that are neither a block nor a transaction.
Garbage == <<7, 9>>

\* What the database directory holds when Storage::new opens it: under the
\* hash of B1 and under the txid of T2 nothing, bytes that do not decode, or
\* the entity's encoding.
InitOnDisk ==
    /\ \E block_data \in {<<>>, <<Garbage>>, <<SerializeBlock(B1)>>},
          tx_data \in {<<>>, <<Garbage>>, <<SerializeTx(T2)>>} :
          db = [EmptyDb EXCEPT
                  ![CF_BLOCKS] =
                      IF block_data = <<>> THEN @
                      ELSE put_cf(@, ToByteArray(BlockHash(B1)), block_data[1]),
                  ![CF_TRANSACTIONS] =
                      IF tx_data = <<>> THEN @
                      ELSE put_cf(@, ToByteArray(Txid(T2)), tx_data[1])]
    /\ last = NoCall
    /\ sent = <<>>
    /\ mailbox = [a \in Actors |-> <<>>]
    /\ resp = <<>>

\* The messages of the storage actor, and its handlers.
SendToStorage ==
    \/ Send([Message("storage", "StoreBlock") EXCEPT !.block = B1])
    \/ SendGetBlock({B1})
    \/ SendAddTransaction({T2})
    \/ SendGetTransaction({T2})

OnDiskNext ==
    \/ SendToStorage
    \/ StorageStoreBlock
    \/ StorageGetBlock
    \/ StorageAddTransaction
    \/ StorageGetTransaction

SpecOnDisk == InitOnDisk /\ [][OnDiskNext]_vars

\* The caller drops the future of a request (its timeout fired, or its task
\* was cancelled): the request's response channel closes.
Drop ==
    \E id \in RequestIds :
        /\ ~sent[id].closed
        /\ sent' = [sent EXCEPT ![id].closed = TRUE]
        /\ UNCHANGED <<db, last, mailbox, resp>>

\* The actor's context takes the envelope of a dropped request from the
\* mailbox and discards it without calling a handler.
DiscardDropped(a) ==
    /\ mailbox[a] # <<>>
    /\ sent[NextRequest(a)].closed
    /\ mailbox' = [mailbox EXCEPT ![a] =
                      SelectSeq(@, LAMBDA id : id # NextRequest(a))]
    /\ UNCHANGED <<db, last, sent, resp>>

\* The storage actor with callers that may drop their requests.
CancelNext ==
    \/ SendToStorage
    \/ Drop
    \/ DiscardDropped("storage")
    \/ StorageStoreBlock
    \/ StorageGetBlock
    \/ StorageAddTransaction
    \/ StorageGetTransaction

SpecCancel == Init /\ [][CancelNext]_vars

\* AddToMempool as its callers build it: the fee in satoshis, and the fee
\* rate in satoshis per byte of the encoded transaction (rounded down).
SendAddToMempoolWithFee ==
    \E tx \in {T2, T3}, fee \in {0, 60} :
        Send([Message("mempool", "AddToMempool") EXCEPT
                !.tx = tx, !.fee = fee,
                !.fee_rate = fee \div Len(SerializeTx(tx))])

MempoolNext ==
    \/ SendAddToMempoolWithFee
    \/ SendGetFromMempool({T2})
    \/ SendGetMempoolTxids
    \/ SendGetMempoolInfo
    \/ MempoolAddToMempool
    \/ MempoolGetFromMempool
    \/ MempoolGetMempoolTxids
    \/ MempoolGetMempoolInfo

SpecMempool == Init /\ [][MempoolNext]_vars

\* Two branches on genesis: A1 alone, and B1 followed by B2.
A1 == MakeBlock(BlockHash(Genesis), <<T1>>, 1)
BranchA == <<A1>>
BranchB == <<B1, B2>>

\* Most blocks submitted in one run of the two branches.
MaxSubmits == 3

\* The blocks of both branches are submitted, in any order, to either of the
\* two actors that handle StoreBlock.
SubmitBlock ==
    \E to \in {"chain", "storage"}, b \in {B2, B1, A1} :
        SendWithin([Message(to, "StoreBlock") EXCEPT !.block = b], MaxSubmits)

ReorgNext ==
    \/ SubmitBlock
    \/ StorageStoreBlock
    \/ ChainStoreBlock

SpecReorg == Init /\ [][ReorgNext]_vars

-----------------------------------------------------------------------------
(* Ledger Store contract                                                   *)

StoredOk(r) == r.res = "Ok"

\* A step changed what get returns for (cf, key).
Rewritten(cf, key) == get(db, cf, key, TRUE)' # get(db, cf, key, TRUE)

\* The step was a put or a delete addressed to (cf, key).
WroteTo(cf, key) ==
    /\ last'.op \in {"put", "delete"}
    /\ last'.cf = cf
    /\ last'.key = key

\* C1: after put(region, key, value) succeeds, get(region, key) returns
\* exactly the bytes written, and what get returns for a key changes only
\* in a put or delete addressed to that key of that region: calls on other
\* keys or other regions, before or in between, leave it alone.
C1_PutThenGet ==
    /\ [](last.op = "put" /\ StoredOk(last) =>
            get(db, last.cf, last.key, TRUE) = [res |-> "Ok", val |-> <<last.value>>])
    /\ [][\A cf \in ColumnFamilies, key \in Keys :
            Rewritten(cf, key) => WroteTo(cf, key)]_vars

\* A put of a non-empty value succeeded while another key, in another
\* region, holds a value of its own.
C1_Witness ==
    /\ last.op = "put" /\ StoredOk(last) /\ last.value # <<>>
    /\ \E cf \in ColumnFamilies \ {last.cf}, key \in Keys \ {last.key} :
          Present(db, cf, key)

\* C8: after delete(region, key) succeeds, get(region, key) returns
\* not-found and exists(region, key) is false, and a key that is absent
\* becomes present only in a put on that key.
C8_DeleteThenGet ==
    /\ [](last.op = "delete" /\ StoredOk(last) =>
            /\ get(db, last.cf, last.key, TRUE) = [res |-> "Ok", val |-> <<>>]
            /\ exists(db, last.cf, last.key, TRUE) = [res |-> "Ok", val |-> FALSE])
    /\ [][\A cf \in ColumnFamilies, key \in Keys :
            ~Present(db, cf, key) /\ Present(db, cf, key)' =>
                last'.op = "put" /\ last'.cf = cf /\ last'.key = key]_vars

\* A delete succeeded on a key that was stored.
C8_Witness == last.op = "delete" /\ StoredOk(last) /\ last.pre

\* C9: delete on a key absent from an existing region returns success
\* (unless RocksDB itself fails) and leaves the whole store unchanged;
\* deleting again after a successful delete changes nothing.
C9_DeleteIdempotent ==
    /\ [][last'.op = "delete" /\ last'.cf \in DOMAIN db /\ ~Present(db, last'.cf, last'.key) =>
            /\ db' = db
            /\ last'.io => StoredOk(last')]_vars
    /\ [](last.op = "delete" /\ StoredOk(last) =>
            delete(db, last.cf, last.key, TRUE) = [db |-> db, res |-> "Ok"])

\* A delete of an absent key returned success while the store holds other keys.
C9_Witness ==
    /\ last.op = "delete" /\ StoredOk(last) /\ ~last.pre
    /\ EntryCount(db) > 0

\* C10: get for a key absent from an existing region returns Ok(None);
\* get returns an error only when the region does not exist (Corruption) or
\* RocksDB fails (RocksDb).
C10_GetAbsent ==
    last.op = "get" =>
        /\ (last.cf \in DOMAIN db /\ last.io /\ ~Present(db, last.cf, last.key)) =>
              (last.res = "Ok" /\ last.out = <<>>)
        /\ last.res = "Corruption" <=> last.cf \notin DOMAIN db
        /\ last.res = "RocksDb" <=> (last.cf \in DOMAIN db /\ ~last.io)
        /\ last.res \in {"Ok", "Corruption", "RocksDb"}

\* get returned Ok(None) for an absent key while the store holds other keys.
C10_Witness ==
    /\ last.op = "get" /\ last.res = "Ok" /\ last.out = <<>>
    /\ EntryCount(db) > 0

\* C11: put overwrites or creates.  A successful put leaves get(region, key)
\* returning the new value, whether or not the key held a value before (so
\* after put v1 and put v2 it returns v2); a failed put leaves the store as
\* it was; and across any put a reader of any key sees either what it saw
\* before or, for the key written, the whole new value: never part of one.
C11_PutOverwrites ==
    [][last'.op = "put" =>
          /\ StoredOk(last') =>
                get(db', last'.cf, last'.key, TRUE) =
                    [res |-> "Ok", val |-> <<last'.value>>]
          /\ ~StoredOk(last') => db' = db
          /\ \A cf \in ColumnFamilies, key \in Keys :
                \/ get(db, cf, key, TRUE)' = get(db, cf, key, TRUE)
                \/ /\ cf = last'.cf /\ key = last'.key
                   /\ get(db, cf, key, TRUE)' = [res |-> "Ok", val |-> <<last'.value>>]]_vars

\* A put succeeded on a key that held a different value.
C11_Witness ==
    /\ last.op = "put" /\ StoredOk(last)
    /\ last.old # <<>> /\ last.old[1] # last.value
    /\ db[last.cf][last.key] = last.value

\* C12: for every existing region and key, exists is true exactly when get
\* returns a value: false in the store as opened, true after a successful
\* put (of any value, the empty one included), false after a successful
\* delete; and a call of exists answers what the store held when called.
C12_ExistsIffGet ==
    /\ \A cf \in ColumnFamilies, key \in Keys :
          exists(db, cf, key, TRUE) =
              [res |-> "Ok", val |-> get(db, cf, key, TRUE).val # <<>>]
    /\ last.op = "exists" /\ StoredOk(last) => last.found = last.pre
    /\ last.op = "put" /\ StoredOk(last) => exists(db, last.cf, last.key, TRUE).val
    /\ last.op = "delete" /\ StoredOk(last) => ~exists(db, last.cf, last.key, TRUE).val

\* exists returned true for a key that holds the empty value, while another
\* key of the same region is absent.
C12_Witness ==
    /\ last.op = "exists" /\ StoredOk(last) /\ last.found
    /\ last.old = <<<<>>>>
    /\ \E key \in Keys : ~Present(db, last.cf, key)

\* The generic key-value operations.
KeyValueOps == {"put", "get", "delete", "exists"}

StatedRegions == {"blocks", "transactions", "utxos", "mempool", "peers", "chain-state"}

\* C13 as stated: the six regions are named blocks, transactions, utxos,
\* chain-state, mempool and peers; the store holds exactly these, and a
\* key-value operation on any of them succeeds unless RocksDB fails.
C13_RegionsAsNamed ==
    /\ DOMAIN db = StatedRegions
    /\ last.op \in KeyValueOps /\ last.cf \in StatedRegions /\ last.io => StoredOk(last)

SixRegions == {"blocks", "transactions", "utxos", "chain_state", "mempool", "peers"}

\* C13: the regions of the store are fixed when it is opened and are exactly
\* blocks, transactions, utxos, chain_state, mempool and peers: a key-value
\* operation on any of them succeeds unless RocksDB fails, and no operation
\* creates or removes a region.
C13_RegionsFixed ==
    /\ [](/\ DOMAIN db = SixRegions
          /\ last.op \in KeyValueOps /\ last.cf \in SixRegions /\ last.io => StoredOk(last))
    /\ [][DOMAIN db' = DOMAIN db]_vars

\* A put on chain_state succeeded while another region holds an entry, and
\* the regions are still the six.
C13_Witness ==
    /\ last.op = "put" /\ last.cf = CF_CHAIN_STATE /\ StoredOk(last)
    /\ \E cf \in ColumnFamilies \ {CF_CHAIN_STATE} : Present(db, cf, <<0>>)
    /\ Cardinality(DOMAIN db) = 6

-----------------------------------------------------------------------------
(* Dispatch boundary                                                       *)

\* The variants of StorageError and NetworkError the handlers return.
TypedErrors == {"Corruption", "RocksDb", "Serialization"}

\* C6: every request sent to a coordinator eventually yields exactly one
\* response to its caller, a success value or a typed error: no request is
\* answered twice, a delivered response never changes, and none is left
\* unanswered.
C6_ExactlyOneResponse ==
    /\ [](\A id \in RequestIds :
            /\ Len(resp[id]) <= 1
            /\ Answered(id) => resp[id][1].res \in {"Ok"} \cup TypedErrors)
    /\ [][\A id \in RequestIds : Answered(id) => resp'[id] = resp[id]]_vars
    /\ \A id \in 1..MaxRequests :
          (id \in RequestIds) ~> (id \in RequestIds /\ Len(resp[id]) = 1)

\* Two coordinators have each answered a request, one with a success value
\* and one with a typed error.
C6_Witness ==
    \E i, j \in RequestIds :
        /\ sent[i].to # sent[j].to
        /\ Len(resp[i]) = 1 /\ resp[i][1].res = "Ok"
        /\ Len(resp[j]) = 1 /\ resp[j][1].res \in TypedErrors

\* The requests sent to coordinator a that its caller still waits for.
Waiting(a) == {id \in RequestIds : sent[id].to = a /\ ~Answered(id)}

\* The requests a step answers.
AnsweredInStep == {id \in RequestIds : ~Answered(id) /\ Answered(id)'}

\* C7: a coordinator handles the messages of its mailbox one at a time and
\* in arrival order: a step answers at most one request, and the request it
\* answers is the oldest one waiting at its coordinator, so no handler
\* (StoreBlock among them) starts before the one before it has returned.
C7_OneAtATimeInOrder ==
    [][/\ Cardinality(AnsweredInStep) <= 1
       /\ \A id \in AnsweredInStep :
             /\ \A other \in Waiting(sent[id].to) : id <= other
             /\ mailbox'[sent[id].to] = Tail(mailbox[sent[id].to])
             /\ \A a \in Actors \ {sent[id].to} : mailbox'[a] = mailbox[a]]_vars

\* The storage coordinator has answered the first of two StoreBlock requests
\* while the second still waits in its mailbox.
C7_Witness ==
    /\ Len(sent) = 2
    /\ sent[1].to = "storage" /\ sent[1].kind = "StoreBlock"
    /\ sent[2].to = "storage" /\ sent[2].kind = "StoreBlock"
    /\ Answered(1) /\ mailbox["storage"] = <<2>>

-----------------------------------------------------------------------------
(* Chain and mempool contract                                              *)

Range(f) == {f[i] : i \in DOMAIN f}

\* The key of an outpoint in the utxos region.
OutPointKey(o) == <<o.txid, o.vout>>

Created(b) ==
    UNION {{OutPoint(tx, v) : v \in 0..(Len(tx.output) - 1)} : tx \in Range(b.txdata)}
Spent(b) == UNION {Range(tx.input) : tx \in Range(b.txdata)}

BlockStored(b) == Present(db, CF_BLOCKS, ToByteArray(BlockHash(b)))
TxsStored(b) ==
    \A tx \in Range(b.txdata) : Present(db, CF_TRANSACTIONS, ToByteArray(Txid(tx)))
UtxoApplied(b) ==
    /\ \A o \in Created(b) : Present(db, CF_UTXOS, OutPointKey(o))
    /\ \A o \in Spent(b) : ~Present(db, CF_UTXOS, OutPointKey(o))
UtxoUntouched(b) == \A o \in Created(b) : ~Present(db, CF_UTXOS, OutPointKey(o))
\* Chain State references b: an entry of chain_state holds b's hash.
TipIs(b) ==
    \E k \in DOMAIN db[CF_CHAIN_STATE] : db[CF_CHAIN_STATE][k] = ToByteArray(BlockHash(b))

\* The blocks a coordinator has answered StoreBlock for with success.
Accepted ==
    {b \in Blocks : \E id \in RequestIds :
        /\ sent[id].kind = "StoreBlock" /\ sent[id].block = b
        /\ Answered(id) /\ resp[id][1].res = "Ok"}

\* C2: a block's acceptance shows all of its four effects or none of them:
\* the block under its hash, its transactions, its UTXO deltas, and Chain
\* State pointing at it.  (A transaction stored alone is no part of a
\* commit: AddTransaction stores transactions too.)
C2_AtomicCommit ==
    \A b \in Blocks :
        \/ BlockStored(b) /\ TxsStored(b) /\ UtxoApplied(b) /\ TipIs(b)
        \/ ~BlockStored(b) /\ UtxoUntouched(b) /\ ~TipIs(b)

\* The accumulated work of the chain ending in b: one unit per block.
RECURSIVE Work(_)
Work(b) ==
    IF \E p \in Blocks : BlockHash(p) = b.header.prev_blockhash
    THEN 1 + Work(CHOOSE p \in Blocks : BlockHash(p) = b.header.prev_blockhash)
    ELSE 1

\* C3: once blocks have been accepted, Chain State references exactly one
\* tip, whose accumulated work is at least that of every accepted block.
C3_SingleBestTip ==
    Accepted # {} =>
        /\ Cardinality({b \in Blocks : TipIs(b)}) = 1
        /\ \A t \in {b \in Blocks : TipIs(b)}, b \in Accepted : Work(t) >= Work(b)

\* C4: the utxos region holds exactly the outputs the accepted blocks
\* created and did not spend.
C4_UtxoConsistency ==
    DOMAIN db[CF_UTXOS] =
        {OutPointKey(o) : o \in (UNION {Created(b) : b \in Accepted})
                                  \ (UNION {Spent(b) : b \in Accepted})}

\* C5: a transaction spending an outpoint that an admitted mempool entry
\* already spends is answered with a conflict error (first entry wins).
C5_MempoolExclusive ==
    \A i, j \in RequestIds :
        (/\ i < j
         /\ sent[i].kind = "AddToMempool" /\ sent[j].kind = "AddToMempool"
         /\ Answered(i) /\ resp[i][1].res = "Ok" /\ Answered(j)
         /\ sent[i].tx # sent[j].tx
         /\ Range(sent[i].tx.input) \cap Range(sent[j].tx.input) # {})
        => resp[j][1].res # "Ok"

\* The block's parent is in the blocks region.
ParentPersisted(b) == Present(db, CF_BLOCKS, ToByteArray(b.header.prev_blockhash))

\* C15: a StoreBlock of a non-genesis block whose previous-block hash is not
\* the hash of a persisted block is answered with an error (blocks are never
\* removed, so a parent that is absent now was absent when the request was
\* handled).
C15_OrphanRejected ==
    \A id \in RequestIds :
        (/\ sent[id].kind = "StoreBlock" /\ Answered(id)
         /\ sent[id].block.header.prev_blockhash # 0
         /\ ~ParentPersisted(sent[id].block))
        => resp[id][1].res # "Ok"

\* The blocks the chain coordinator accepted before it took request j, in
\* the order it accepted them.
ChainAcceptedBefore(j) ==
    LET ids == SelectSeq([k \in 1..(j - 1) |-> k],
                         LAMBDA k : /\ sent[k].to = "chain" /\ sent[k].kind = "StoreBlock"
                                    /\ Answered(k) /\ resp[k][1].res = "Ok")
    IN [n \in 1..Len(ids) |-> sent[ids[n]].block]

\* C16: once the chain coordinator has accepted the genesis block alone,
\* GetChainInfo reports height 0 and the hash of genesis as the tip; once it
\* has accepted genesis and then B1, it reports the hash of B1.
C16_ChainInfoTip ==
    \A j \in RequestIds :
        (sent[j].kind = "GetChainInfo" /\ Answered(j) /\ resp[j][1].res = "Ok") =>
            LET info == resp[j][1].val[1]
                accepted == ChainAcceptedBefore(j)
            IN /\ accepted = <<Genesis>> =>
                    /\ info.blocks = 0
                    /\ info.best_block_hash = HashHex(BlockHash(Genesis))
               /\ accepted = <<Genesis, B1>> =>
                    info.best_block_hash = HashHex(BlockHash(B1))

\* The blocks coordinator c has accepted, in the order it accepted them.
AcceptedBy(c) ==
    LET ids == SelectSeq([k \in 1..Len(sent) |-> k],
                         LAMBDA k : /\ sent[k].to = c /\ sent[k].kind = "StoreBlock"
                                    /\ Answered(k) /\ resp[k][1].res = "Ok")
    IN [n \in 1..Len(ids) |-> sent[ids[n]].block]

\* The UTXO set after exactly the blocks of a branch: what they created
\* less what they spent.
UtxoOf(branch) ==
    {OutPointKey(o) : o \in (UNION {Created(b) : b \in Range(branch)})
                              \ (UNION {Spent(b) : b \in Range(branch)})}

\* C17: with branches A and B on a common ancestor, B having more work,
\* a coordinator that has accepted all of A and then all of B leaves Chain
\* State at B's tip and the UTXO set reflecting exactly B's blocks: the
\* state it is in after accepting B's blocks alone.
C17_ReorgPathIndependent ==
    \A c \in Actors :
        (/\ AcceptedBy(c) \in {BranchB, BranchA \o BranchB}
         /\ \A id \in RequestIds : sent[id].to = c /\ Answered(id))
        => /\ TipIs(BranchB[Len(BranchB)])
           /\ DOMAIN db[CF_UTXOS] = UtxoOf(BranchB)

-----------------------------------------------------------------------------
(* Block and transaction queries                                           *)

\* The blocks and transactions whose encoding s is.
BlocksEncodedAs(s) == {b \in Blocks \cup {A1} : SerializeBlock(b) = s}
TxsEncodedAs(s) == {tx \in Txs : SerializeTx(tx) = s}

\* What a query step must answer for what is stored under the key: not-found
\* for nothing, the entity for its encoding, the decode error otherwise.
Outcome(stored, entities) ==
    IF stored = <<>> THEN Ok(<<>>)
    ELSE IF entities # {} THEN Ok(<<CHOOSE e \in entities : TRUE>>)
    ELSE Err("Serialization")

\* C18: GetBlock and GetTransaction have three outcomes (when RocksDB itself
\* does not fail): a stored, decodable entry returns the entity; an absent
\* key returns not-found as a success value; stored bytes that do not decode
\* return the decode error (StorageError::Serialization), which is neither
\* not-found nor a value.
C18_ThreeOutcomes ==
    [][\A id \in AnsweredInStep :
          LET r == resp'[id][1] IN
          /\ sent[id].kind = "GetBlock" /\ r.res # "RocksDb" =>
                LET stored == get_cf_value(db[CF_BLOCKS], ToByteArray(sent[id].hash))
                IN r = Outcome(stored, IF stored = <<>> THEN {}
                                       ELSE BlocksEncodedAs(stored[1]))
          /\ sent[id].kind = "GetTransaction" /\ r.res # "RocksDb" =>
                LET stored == get_cf_value(db[CF_TRANSACTIONS],
                                           ToByteArray(sent[id].txid))
                IN r = Outcome(stored, IF stored = <<>> THEN {}
                                       ELSE TxsEncodedAs(stored[1]))]_vars

\* A GetBlock was answered with the decode error for bytes that are stored
\* under its hash, and a GetTransaction with the transaction stored under
\* its txid.
C18_Witness ==
    /\ Present(db, CF_BLOCKS, ToByteArray(BlockHash(B1)))
    /\ \E i \in RequestIds :
          /\ sent[i].kind = "GetBlock" /\ Answered(i)
          /\ resp[i][1].res = "Serialization"
    /\ \E j \in RequestIds :
          /\ sent[j].kind = "GetTransaction" /\ Answered(j)
          /\ resp[j][1] = Ok(<<T2>>)

\* C19: blocks and transactions round-trip through the storage coordinator.
\* Encoding then decoding gives the entity back; and once it has answered
\* StoreBlock(B) with success, a later GetBlock(hash(B)) that RocksDB does
\* not fail returns B; likewise AddTransaction(T) and GetTransaction(txid(T)).
C19_RoundTrip ==
    /\ \A b \in Blocks : DeserializeBlock(SerializeBlock(b)) = <<b>>
    /\ \A tx \in Txs : DeserializeTx(SerializeTx(tx)) = <<tx>>
    /\ \A i, j \in RequestIds :
          (i < j /\ Answered(i) /\ resp[i][1].res = "Ok" /\ Answered(j)) =>
            /\ (/\ sent[i].to = "storage" /\ sent[i].kind = "StoreBlock"
                /\ sent[j].kind = "GetBlock"
                /\ sent[j].hash = BlockHash(sent[i].block))
               => resp[j][1] \in {Ok(<<sent[i].block>>), Err("RocksDb")}
            /\ (/\ sent[i].kind = "AddTransaction"
                /\ sent[j].kind = "GetTransaction"
                /\ sent[j].txid = Txid(sent[i].tx))
               => resp[j][1] \in {Ok(<<sent[i].tx>>), Err("RocksDb")}

\* StoreBlock of B1, a block that holds a transaction, was answered with
\* success and the GetBlock of its hash sent after it returned B1.
C19_Witness ==
    /\ Len(sent) = 2
    /\ sent[1].to = "storage" /\ sent[1].kind = "StoreBlock" /\ sent[1].block = B1
    /\ sent[2].kind = "GetBlock" /\ sent[2].hash = BlockHash(B1)
    /\ Answered(1) /\ resp[1][1].res = "Ok"
    /\ Answered(2) /\ resp[2][1] = Ok(<<B1>>)

-----------------------------------------------------------------------------
(* Mempool admission                                                       *)

\* The minimum relay fee rate the node reports (0.00001 BTC per 1000 bytes),
\* in satoshis per byte.
MinRelayFeeRate == 1

\* C20: a transaction whose fee rate (fee divided by its size) is not above
\* the minimum relay fee rate is not admitted: AddToMempool is answered with
\* an error and no mempool entry is written.
C20_FeeTooLowRejected ==
    \A id \in RequestIds :
        (/\ sent[id].kind = "AddToMempool" /\ Answered(id)
         /\ sent[id].fee \div Len(SerializeTx(sent[id].tx)) <= MinRelayFeeRate)
        => /\ resp[id][1].res # "Ok"
           /\ ~Present(db, CF_MEMPOOL, ToByteArray(Txid(sent[id].tx)))

-----------------------------------------------------------------------------
(* Mempool queries                                                         *)

\* The transactions the mempool actor answered AddToMempool for with success
\* before request j was sent (the code has no eviction).
AdmittedBefore(j) ==
    {sent[i].tx : i \in {k \in 1..(j - 1) :
                            /\ sent[k].kind = "AddToMempool"
                            /\ Answered(k) /\ resp[k][1].res = "Ok"}}

\* C21: the mempool queries reflect one snapshot: a transaction whose
\* AddToMempool was answered with success (and that was not evicted) is
\* returned by GetFromMempool and listed by GetMempoolTxids, and
\* GetMempoolInfo's size counts it.
C21_MempoolSnapshot ==
    \A j \in RequestIds :
        (sent[j].to = "mempool" /\ Answered(j)) =>
            \A tx \in AdmittedBefore(j) :
                /\ (sent[j].kind = "GetFromMempool" /\ sent[j].txid = Txid(tx))
                   => resp[j][1] = Ok(<<tx>>)
                /\ sent[j].kind = "GetMempoolTxids"
                   => Txid(tx) \in Range(resp[j][1].val)
                /\ sent[j].kind = "GetMempoolInfo"
                   => resp[j][1].val[1].size >= 1

-----------------------------------------------------------------------------
(* Chain to mempool notification                                           *)

\* C22: a step in which the chain actor answers StoreBlock with success
\* also sends a message to the mempool actor (the notification that names
\* the transactions the block confirmed).
C22_AcceptanceNotifiesMempool ==
    [][\A id \in AnsweredInStep :
          (/\ sent[id].to = "chain" /\ sent[id].kind = "StoreBlock"
           /\ resp'[id][1].res = "Ok")
          => \E k \in (1..Len(sent')) \ RequestIds : sent'[k].to = "mempool"]_vars

-----------------------------------------------------------------------------
(* The peer set                                                            *)

\* Request i registered peer p with success and no DisconnectPeer of p was
\* sent between requests i and j.
RegisteredAt(i, j, p) ==
    /\ i < j
    /\ sent[i].kind = "NewPeer" /\ sent[i].peer_id = p
    /\ Answered(i) /\ resp[i][1].res = "Ok"
    /\ \A k \in (i + 1)..(j - 1) :
          ~(sent[k].kind = "DisconnectPeer" /\ sent[k].peer_id = p)

\* C23: NewPeer for an id that is registered at that moment is answered
\* with an error (duplicate peer).
C23_DuplicatePeerRejected ==
    \A i, j \in RequestIds :
        (/\ sent[j].kind = "NewPeer" /\ Answered(j)
         /\ RegisteredAt(i, j, sent[j].peer_id))
        => resp[j][1].res # "Ok"

\* The ids a GetPeers answer lists.
Listed(j) == {resp[j][1].val[n].id : n \in 1..Len(resp[j][1].val)}

\* C24: DisconnectPeer is answered with success whether or not the id is
\* registered; the step that answers it changes nothing in the store, so a
\* second removal leaves what the first left; and a GetPeers sent after it
\* does not list the id unless it was registered again.
C24_DisconnectIdempotent ==
    /\ [](\A id \in RequestIds :
            (sent[id].kind = "DisconnectPeer" /\ Answered(id))
            => resp[id][1] = Ok(<<>>))
    /\ [][\A id \in AnsweredInStep :
            sent[id].kind = "DisconnectPeer" => db' = db]_vars
    /\ [](\A i, j \in RequestIds :
            (/\ i < j /\ sent[i].kind = "DisconnectPeer"
             /\ sent[j].kind = "GetPeers" /\ Answered(j)
             /\ \A k \in (i + 1)..(j - 1) : sent[k].kind # "NewPeer")
            => sent[i].peer_id \notin Listed(j))

\* Two DisconnectPeer of the same id, never registered, were both answered
\* with success.
C24_Witness ==
    /\ Len(sent) = 2
    /\ \A id \in {1, 2} :
          /\ sent[id].kind = "DisconnectPeer" /\ sent[id].peer_id = "peer1"
          /\ Answered(id) /\ resp[id][1].res = "Ok"

\* C25: GetPeers lists exactly the ids registered and not yet removed: an
\* id registered with success and not removed since is listed, and every
\* listed id is one that was registered.
C25_PeersListed ==
    \A j \in RequestIds :
        (sent[j].kind = "GetPeers" /\ Answered(j)) =>
            /\ \A i \in RequestIds :
                  RegisteredAt(i, j, sent[i].peer_id)
                  => sent[i].peer_id \in Listed(j)
            /\ \A p \in Listed(j) :
                  \E i \in RequestIds : RegisteredAt(i, j, p)

-----------------------------------------------------------------------------
(* Cancellation by the caller                                              *)

\* The requests that leave a mailbox in a step.
Taken == {id \in RequestIds :
            /\ \E n \in DOMAIN mailbox[sent[id].to] : mailbox[sent[id].to][n] = id
            /\ \A n \in DOMAIN mailbox'[sent[id].to] : mailbox'[sent[id].to][n] # id}

\* What the handler of a StoreBlock or AddTransaction writes, whole.
EffectOf(msg) ==
    IF msg.kind = "StoreBlock"
    THEN [db EXCEPT ![CF_BLOCKS] =
            put_cf(@, ToByteArray(BlockHash(msg.block)), SerializeBlock(msg.block))]
    ELSE IF msg.kind = "AddTransaction"
    THEN [db EXCEPT ![CF_TRANSACTIONS] =
            put_cf(@, ToByteArray(Txid(msg.tx)), SerializeTx(msg.tx))]
    ELSE db

\* C26: a request is never half applied when its caller stops waiting: a
\* request dropped before the actor took it leaves the store and the
\* responses as they were; a request the actor took before the drop has its
\* whole effect (or, on a failed write, none), and a drop that comes after
\* leaves that effect in place.
C26_NeverHalfApplied ==
    [][/\ \A id \in Taken :
            IF sent[id].closed
            THEN db' = db /\ resp' = resp
            ELSE /\ db' \in {db, EffectOf(sent[id])}
                 /\ Answered(id)'
                 /\ resp'[id][1].res = "Ok" => db' = EffectOf(sent[id])
       /\ sent' # sent /\ Len(sent') = Len(sent)
            => db' = db /\ mailbox' = mailbox /\ resp' = resp]_vars

\* A StoreBlock dropped while it waited was taken from the mailbox and left
\* nothing in the store; an AddTransaction that the actor had handled before
\* its caller dropped it is stored whole.
C26_Witness ==
    /\ Len(sent) = 2
    /\ sent[1].kind = "StoreBlock" /\ sent[1].closed /\ ~Answered(1)
    /\ sent[2].kind = "AddTransaction" /\ sent[2].closed /\ Answered(2)
    /\ mailbox["storage"] = <<>>
    /\ ~BlockStored(sent[1].block)
    /\ get_cf_value(db[CF_TRANSACTIONS], ToByteArray(Txid(sent[2].tx)))
         = <<SerializeTx(sent[2].tx)>>

-----------------------------------------------------------------------------
(* Event publishing (src/events.rs)                                        *)

\* Most publishers an EventManager holds.
MaxPublishers == 2

\* The publishers a collection may hold: the webhook publisher with one
\* endpoint and one retry, and the Kubernetes publisher configured for block
\* events, each enabled or not. (EventManager::new builds at present at most
\* the webhook publisher; the collection and the loop over it are general.)
Publishers ==
    {[name |-> n, enabled |-> e, endpoints |-> IF n = "webhook" THEN 1 ELSE 0,
      retry_attempts |-> 1, event_types |-> {"block"}] :
        n \in {"webhook", "kubernetes"}, e \in BOOLEAN}

PublisherLists ==
    UNION {[1..n -> Publishers] : n \in 0..MaxPublishers}

\* What the world does during one publish: whether serde_json encodes the
\* event, and for the publisher at each position the attempt at which its
\* endpoint (or the Kubernetes API) accepts the event, 0 for never.
Worlds(n) == [serde_ok : BOOLEAN, accept : [1..n -> 0..2]]

\* Mutant of WebhookEventPublisher::publish: an endpoint that was not
\* reached makes the result an error.
WebhookPublish_undelivered_is_error(p, event_type, serde_ok, accept) ==
    IF ~serde_ok THEN [res |-> "Serialization", delivered |-> FALSE, posts |-> 0]
    ELSE IF p.endpoints = 0 THEN [res |-> "Ok", delivered |-> FALSE, posts |-> 0]
    ELSE IF accept \in 1..(p.retry_attempts + 1)
    THEN [res |-> "Ok", delivered |-> TRUE, posts |-> accept]
    ELSE [res |-> "PublishFailed", delivered |-> FALSE,
          posts |-> p.retry_attempts + 1]

\* WebhookEventPublisher::publish: the event is posted to the endpoint until
\* it answers with success or retry_attempts + 1 posts were made; an
\* undelivered event is logged and the result is Ok all the same.
WebhookPublish(p, event_type, serde_ok, accept) ==
    IF ~serde_ok THEN [res |-> "Serialization", delivered |-> FALSE, posts |-> 0]
    ELSE IF p.endpoints = 0 THEN [res |-> "Ok", delivered |-> FALSE, posts |-> 0]
    ELSE IF accept \in 1..(p.retry_attempts + 1)
    THEN [res |-> "Ok", delivered |-> TRUE, posts |-> accept]
    ELSE [res |-> "Ok", delivered |-> FALSE, posts |-> p.retry_attempts + 1]

\* K8sEventPublisher::publish: an event type that is not configured is
\* skipped with Ok; otherwise one create call, whose failure is the result.
K8sPublish(p, event_type, serde_ok, accept) ==
    IF event_type \notin p.event_types
    THEN [res |-> "Ok", delivered |-> FALSE, posts |-> 0]
    ELSE IF accept = 1 THEN [res |-> "Ok", delivered |-> TRUE, posts |-> 1]
    ELSE [res |-> "KubernetesApi", delivered |-> FALSE, posts |-> 1]

\* publisher.publish(&event) by the publisher's type.
PublisherPublish(p, event_type, serde_ok, accept) ==
    IF p.name = "webhook" THEN WebhookPublish(p, event_type, serde_ok, accept)
    ELSE K8sPublish(p, event_type, serde_ok, accept)

\* The state of the loop of EventManager::publish before any publisher.
NoneAsked == [delivered |-> {}, asked |-> <<>>, errors |-> <<>>]

\* Mutant of PublishTo: the loop ends at the first publisher that fails.
RECURSIVE PublishTo_until_error(_, _, _, _, _)
PublishTo_until_error(publishers, event_type, world, i, acc) ==
    IF i > Len(publishers) \/ acc.errors # <<>> THEN acc
    ELSE IF ~publishers[i].enabled
    THEN PublishTo_until_error(publishers, event_type, world, i + 1, acc)
    ELSE LET r == PublisherPublish(publishers[i], event_type,
                                   world.serde_ok, world.accept[i])
         IN PublishTo_until_error(publishers, event_type, world, i + 1,
                [delivered |-> IF r.delivered THEN acc.delivered \cup {i}
                               ELSE acc.delivered,
                 asked |-> Append(acc.asked, i),
                 errors |-> IF r.res = "Ok" THEN acc.errors
                            ELSE Append(acc.errors, r.res)])

\* The loop of EventManager::publish from position i on: every enabled
\* publisher is asked, an error is kept and the loop goes on.
RECURSIVE PublishTo(_, _, _, _, _)
PublishTo(publishers, event_type, world, i, acc) ==
    IF i > Len(publishers) THEN acc
    ELSE IF ~publishers[i].enabled
    THEN PublishTo(publishers, event_type, world, i + 1, acc)
    ELSE LET r == PublisherPublish(publishers[i], event_type,
                                   world.serde_ok, world.accept[i])
         IN PublishTo(publishers, event_type, world, i + 1,
                [delivered |-> IF r.delivered THEN acc.delivered \cup {i}
                               ELSE acc.delivered,
                 asked |-> Append(acc.asked, i),
                 errors |-> IF r.res = "Ok" THEN acc.errors
                            ELSE Append(acc.errors, r.res)])

\* Mutant of EventManager::publish: the errors are compared with the number
\* of enabled publishers.
publish_counting_enabled(publishers, event_type, world) ==
    LET done == PublishTo(publishers, event_type, world, 1, NoneAsked) IN
    [res |-> IF done.errors # <<>> /\ Len(done.errors) = Len(done.asked)
             THEN "PublishFailed" ELSE "Ok",
     op |-> "publish", event_type |-> event_type,
     delivered |-> done.delivered, asked |-> done.asked, errors |-> done.errors,
     publishers |-> publishers, world |-> world]

\* EventManager::publish: the call, what the loop did, and the result.
publish(publishers, event_type, world) ==
    LET done == PublishTo(publishers, event_type, world, 1, NoneAsked) IN
    [res |-> IF done.errors # <<>> /\ Len(done.errors) = Len(publishers)
             THEN "PublishFailed" ELSE "Ok",
     op |-> "publish", event_type |-> event_type,
     delivered |-> done.delivered, asked |-> done.asked, errors |-> done.errors,
     publishers |-> publishers, world |-> world]

\* An EventManager with its collection of publishers, before any event.
InitEvents ==
    /\ db = EmptyDb
    /\ \E publishers \in PublisherLists :
          last = [op |-> "new", publishers |-> publishers]
    /\ sent = <<>>
    /\ mailbox = [a \in Actors |-> <<>>]
    /\ resp = <<>>

\* An event is published through the EventManager.
Publish ==
    \E event_type \in {"block", "peer"}, world \in Worlds(Len(last.publishers)) :
        /\ last' = publish(last.publishers, event_type, world)
        /\ db' = db
        /\ ActorsIdle

SpecEvents == InitEvents /\ [][Publish]_vars

\* The positions of the enabled publishers of a collection, in its order.
EnabledIn(publishers) ==
    SelectSeq([i \in 1..Len(publishers) |-> i], LAMBDA i : publishers[i].enabled)

\* C27: publish reports failure when there are enabled publishers and none
\* of them delivered the event, and success when at least one delivered it.
C27_FailsIffNoneDelivers ==
    last.op = "publish" =>
        /\ (EnabledIn(last.publishers) # <<>> /\ last.delivered = {})
           => last.res # "Ok"
        /\ last.delivered # {} => last.res = "Ok"

\* C28: for a published event every enabled publisher is asked exactly
\* once and in the order of the collection, whatever the publishers before
\* it returned; a publisher that is not enabled is not asked.
C28_EveryEnabledAskedInOrder ==
    last.op = "publish" => last.asked = EnabledIn(last.publishers)

\* The first of two enabled publishers returned an error and the second
\* was asked after it and delivered the event.
C28_Witness ==
    /\ last.op = "publish"
    /\ Len(last.publishers) = 2
    /\ last.asked = <<1, 2>>
    /\ Len(last.errors) = 1
    /\ last.delivered = {2}

-----------------------------------------------------------------------------
(* Queries of the RPC and HTTP interfaces (src/rpc.rs, src/api.rs)         *)

\* A query, its parameters, and the answer its caller receives.
Query(op, params, res, out) ==
    [res |-> res, op |-> op, out |-> out, params |-> params]

\* JSON-RPC getblock: parameters that do not parse are invalid; any hash is
\* answered with the same fixed block object.
getblock(params) ==
    IF params = <<>> THEN Query("getblock", params, "InvalidParams", <<>>)
    ELSE Query("getblock", params, "Ok",
               <<[tx |-> <<>>, hash |-> ZeroHashString, size |-> 285,
                  height |-> 0, confirmations |-> 1]>>)

\* JSON-RPC getrawtransaction: verbose gives a fixed transaction object, and
\* otherwise the raw hex alone, which is the empty string.
getrawtransaction(params) ==
    IF params = <<>>
    THEN Query("getrawtransaction", params, "InvalidParams", <<>>)
    ELSE IF params[2]
    THEN Query("getrawtransaction", params, "Ok",
               <<[txid |-> ZeroHashString, size |-> 0, confirmations |-> 0,
                  hex |-> ""]>>)
    ELSE Query("getrawtransaction", params, "Ok", <<[hex |-> ""]>>)

\* GET /block: without hash and height a bad request; otherwise the same
\* fixed block object for every query.
get_block(params) ==
    IF params = <<>> THEN Query("get_block", params, "BadRequest", <<>>)
    ELSE Query("get_block", params, "Ok",
               <<[tx |-> <<>>, hash |-> ZeroHashString, height |-> 0]>>)

\* GET /transaction: an object that repeats the queried txid.
get_transaction(params) ==
    Query("get_transaction", params, "Ok",
          <<[txid |-> HashHex(params[1]), size |-> 0, fee |-> 0]>>)

QueryBlock ==
    \E params \in {<<>>, <<BlockHash(B1)>>, <<BlockHash(Genesis)>>} :
        /\ \/ last' = getblock(params)
           \/ last' = get_block(params)
        /\ db' = db
        /\ ActorsIdle

QueryTransaction ==
    /\ \/ \E params \in {<<>>, <<Txid(T2), FALSE>>, <<Txid(T2), TRUE>>} :
             last' = getrawtransaction(params)
       \/ last' = get_transaction(<<Txid(T2)>>)
    /\ db' = db
    /\ ActorsIdle

\* The node with its storage actor and the two query interfaces.
QueryNext ==
    \/ Send([Message("storage", "StoreBlock") EXCEPT !.block = B1])
    \/ SendAddTransaction({T2})
    \/ StorageStoreBlock
    \/ StorageAddTransaction
    \/ QueryBlock
    \/ QueryTransaction

SpecQuery == Init /\ [][QueryNext]_vars

\* The entity a query names is in the store.
QueriedStored ==
    IF last.op \in {"getblock", "get_block"}
    THEN Present(db, CF_BLOCKS, ToByteArray(last.params[1]))
    ELSE Present(db, CF_TRANSACTIONS, ToByteArray(last.params[1]))

\* C29: a query of the RPC or HTTP interface for a block or transaction
\* that is not in the store is answered with a not-found result (an empty
\* answer), never with data of an entity.
C29_AbsentIsNotFound ==
    (/\ last.op \in {"getblock", "getrawtransaction", "get_block", "get_transaction"}
     /\ last.res = "Ok"
     /\ ~QueriedStored)
    => last.out = <<>> \/ last.out = <<[hex |-> ""]>>

-----------------------------------------------------------------------------
(* Handles of the one store (Clone for Storage)                            *)

\* Most Storage handles in use: the one Storage::new returned and clones.
MaxHandles == 2

\* Storage::new: the handle holds the Arc of the database it opened, whose
\* content is db.
StorageNew == [db |-> "opened"]

\* Mutant of Clone for Storage: the clone holds a database of its own.
clone_detached(self) == [db |-> "copy"]

\* Clone for Storage: Arc::clone, the same database.
clone(self) == [db |-> self.db]

\* Handle 1 is the one Storage::new returned; each further handle is a clone
\* of the handle before it.
RECURSIVE HandleNo(_)
HandleNo(h) == IF h = 1 THEN StorageNew ELSE clone(HandleNo(h - 1))

\* A handle reaches the database that was opened.
Shared(self) == self.db = StorageNew.db

\* The content of the database a handle holds.
Reach(self) == IF Shared(self) THEN db ELSE EmptyDb

\* A call of Storage through handle h and its result.
Via(h, op, key, value, res, out) ==
    [key |-> key, value |-> value, res |-> res, op |-> op, out |-> out,
     handle |-> h]

\* storage.put through handle h; each handle writes values that name it.
PutVia(h, key, value, io) ==
    /\ ActorsIdle
    /\ Present(db, CF_BLOCKS, key) \/ EntryCount(db) < MaxEntries
    /\ LET r == put(Reach(HandleNo(h)), CF_BLOCKS, key, value, io) IN
        /\ db' = IF Shared(HandleNo(h)) THEN r.db ELSE db
        /\ last' = Via(h, "put", key, value, r.res, <<>>)

\* storage.get through handle h.
GetVia(h, key, io) ==
    /\ ActorsIdle
    /\ LET r == get(Reach(HandleNo(h)), CF_BLOCKS, key, io) IN
        /\ db' = db
        /\ last' = Via(h, "get", key, <<>>, r.res, r.val)

\* The threads that hold the handles call put and get in any order.
SharedNext ==
    \E h \in 1..MaxHandles, key \in Keys, io \in BOOLEAN :
        \/ \E value \in {<<h>>, <<h, 9>>} : PutVia(h, key, value, io)
        \/ GetVia(h, key, io)

SpecShared == Init /\ [][SharedNext]_vars

\* C30: the handles share one store: the value a put through one handle
\* wrote is what the store holds and what a get through any handle returns
\* next, and a key that several handles wrote holds one of the values
\* written to it.
C30_HandlesShareStore ==
    /\ [][(/\ last.op = "put" /\ last.res = "Ok"
           /\ last'.op = "get" /\ last'.res = "Ok" /\ last'.key = last.key)
          => last'.out = <<last.value>>]_vars
    /\ [][(last'.op = "put" /\ last'.res = "Ok")
          => get_cf_value(db'[CF_BLOCKS], last'.key) = <<last'.value>>]_vars
    /\ [](\A key \in DOMAIN db[CF_BLOCKS] :
            \E h \in 1..MaxHandles : db[CF_BLOCKS][key] \in {<<h>>, <<h, 9>>})

\* A get through handle 2 returned a value that handle 1 wrote.
C30_Witness ==
    /\ last.op = "get" /\ last.handle = 2 /\ last.res = "Ok"
    /\ last.out = <<<<1>>>>

-----------------------------------------------------------------------------
(* Configuration (src/config.rs) and network constants                     *)
(* (src/network/constants.rs)                                              *)

\* format!("{host}:{port}"): a peer address, kept as its host and its port.
Address(host, port) == <<host, port>>

\* Config::default_regtest, with the fields the functions below read.
default_regtest ==
    [network |-> "regtest",
     api |-> [port |-> 8332],
     rpc |-> [port |-> 18443],
     network_config |->
        [listen_port |-> 18444, custom_peers |-> <<>>,
         enable_dns_seeds |-> TRUE, zmq |-> [pub_port |-> <<28332>>]],
     metrics |-> [port |-> 9090],
     events |-> [zmq |-> [port |-> 28333]]]

\* NetworkConstants::mainnet.
mainnet ==
    [name |-> "mainnet", magic_bytes |-> <<249, 190, 180, 217>>,
     default_port |-> 8333,
     dns_seeds |-> <<"seed.bitcoin.sipa.be", "dnsseed.bluematt.me",
                     "dnsseed.bitcoin.dashjr.org", "seed.bitcoinstats.com",
                     "seed.bitcoin.jonasschnelli.ch", "seed.btc.petertodd.org",
                     "seed.bitcoin.sprovoost.nl", "dnsseed.emzy.de">>,
     protocol_version |-> 70016, services |-> 1]

\* NetworkConstants::testnet.
testnet ==
    [name |-> "testnet", magic_bytes |-> <<11, 17, 9, 7>>,
     default_port |-> 18333,
     dns_seeds |-> <<"testnet-seed.bitcoin.jonasschnelli.ch",
                     "seed.tbtc.petertodd.org",
                     "seed.testnet.bitcoin.sprovoost.nl",
                     "testnet-seed.bluematt.me">>,
     protocol_version |-> 70016, services |-> 1]

\* NetworkConstants::regtest.
regtest ==
    [name |-> "regtest", magic_bytes |-> <<250, 191, 181, 218>>,
     default_port |-> 18444, dns_seeds |-> <<>>,
     protocol_version |-> 70016, services |-> 1]

\* NetworkConstants::for_network.
for_network(network) ==
    IF network = "mainnet" THEN mainnet
    ELSE IF network = "testnet" THEN testnet
    ELSE regtest

\* NetworkConstants::uses_dns_seeds.
uses_dns_seeds(self) == self.dns_seeds # <<>>

\* Mutant of NetworkConstants::localhost_peers: the name is not looked at.
localhost_peers_any_network(self) ==
    <<Address("127.0.0.1", self.default_port),
      Address("localhost", self.default_port)>>

\* NetworkConstants::localhost_peers.
localhost_peers(self) ==
    IF self.name = "regtest"
    THEN <<Address("127.0.0.1", self.default_port),
           Address("localhost", self.default_port)>>
    ELSE <<>>

\* Mutant of Config::effective_listen_port: the network's default always.
effective_listen_port_default_only(self) ==
    IF self.network = "mainnet" THEN 8333
    ELSE IF self.network = "testnet" THEN 18333
    ELSE 18444

\* Config::effective_listen_port.
effective_listen_port(self) ==
    IF self.network_config.listen_port # 0
    THEN self.network_config.listen_port
    ELSE IF self.network = "mainnet" THEN 8333
    ELSE IF self.network = "testnet" THEN 18333
    ELSE 18444

\* Mutant of Config::should_use_dns_seeds: the network is not looked at.
should_use_dns_seeds_any_network(self) == self.network_config.enable_dns_seeds

\* Config::should_use_dns_seeds.
should_use_dns_seeds(self) ==
    /\ self.network_config.enable_dns_seeds
    /\ self.network \in {"mainnet", "testnet"}

\* Mutant of Config::all_custom_peers: the localhost peers on every network.
all_custom_peers_every_network(self) ==
    self.network_config.custom_peers \o
        <<Address("127.0.0.1", effective_listen_port(self)),
          Address("localhost", effective_listen_port(self))>>

\* Config::all_custom_peers.
all_custom_peers(self) ==
    IF self.network = "regtest"
    THEN self.network_config.custom_peers \o
            <<Address("127.0.0.1", effective_listen_port(self)),
              Address("localhost", effective_listen_port(self))>>
    ELSE self.network_config.custom_peers

\* Vec::insert at the place that keeps a sorted vector sorted.
RECURSIVE insert_sorted(_, _)
insert_sorted(sorted, x) ==
    IF sorted = <<>> THEN <<x>>
    ELSE IF x <= Head(sorted) THEN <<x>> \o sorted
    ELSE <<Head(sorted)>> \o insert_sorted(Tail(sorted), x)

\* Mutant of sort: the vector is left as it is.
sort_nothing(v) == v

\* ports.sort().
RECURSIVE sort(_)
sort(v) == IF v = <<>> THEN <<>> ELSE insert_sorted(sort(Tail(v)), Head(v))

\* The ports Config::validate collects, in its order.
ports_of(self) ==
    <<self.api.port, self.rpc.port, self.metrics.port>>
        \o self.network_config.zmq.pub_port
        \o <<self.events.zmq.port>>

\* Config::validate: the first pair of equal neighbours of the sorted ports
\* is an error; then the data directory is created if it is missing, which
\* may fail.
validate(self, datadir_ok) ==
    LET ports == sort(ports_of(self))
        equal == {i \in 1..(Len(ports) - 1) : ports[i] = ports[i + 1]}
    IN IF equal # {}
       THEN [value |-> ports[CHOOSE i \in equal : \A j \in equal : i <= j],
             res |-> "InvalidValue", field |-> "ports"]
       ELSE IF ~datadir_ok
       THEN [value |-> 0, res |-> "InvalidValue", field |-> "datadir"]
       ELSE [value |-> 0, res |-> "Ok", field |-> ""]

\* The configurations: every network with a listen port that is set or 0,
\* DNS seeds on or off and up to two custom peers; and the regtest defaults
\* with every choice of the five ports among five values.
Configs ==
    {[default_regtest EXCEPT
        !.network = network,
        !.network_config.listen_port = listen_port,
        !.network_config.custom_peers = custom_peers,
        !.network_config.enable_dns_seeds = enable_dns_seeds] :
        network \in {"mainnet", "testnet", "regtest"},
        listen_port \in {0, 9999, 18444},
        custom_peers \in {<<>>, <<Address("peer1", 8333)>>,
                          <<Address("peer1", 8333), Address("peer2", 8333)>>},
        enable_dns_seeds \in BOOLEAN}
    \cup
    {[default_regtest EXCEPT
        !.api.port = api, !.rpc.port = rpc, !.metrics.port = metrics,
        !.network_config.zmq.pub_port = pub_port,
        !.events.zmq.port = events] :
        api \in {8332, 9090, 18443, 28332, 28333},
        rpc \in {8332, 9090, 18443, 28332, 28333},
        metrics \in {8332, 9090, 18443, 28332, 28333},
        pub_port \in {<<>>} \cup {<<p>> : p \in {8332, 9090, 18443, 28332, 28333}},
        events \in {8332, 9090, 18443, 28332, 28333}}

\* A function of the configuration was called and returned out.
Asked(op, out) == [op |-> op, out |-> out, config |-> last.config]

\* A configuration as Config::load read it, before any call.
InitConfig ==
    /\ db = EmptyDb
    /\ \E config \in Configs : last = [op |-> "load", out |-> <<>>, config |-> config]
    /\ sent = <<>>
    /\ mailbox = [a \in Actors |-> <<>>]
    /\ resp = <<>>

EffectiveListenPort ==
    /\ last' = Asked("effective_listen_port", effective_listen_port(last.config))
    /\ db' = db /\ ActorsIdle

ShouldUseDnsSeeds ==
    /\ last' = Asked("should_use_dns_seeds", should_use_dns_seeds(last.config))
    /\ db' = db /\ ActorsIdle

AllCustomPeers ==
    /\ last' = Asked("all_custom_peers", all_custom_peers(last.config))
    /\ db' = db /\ ActorsIdle

Validate ==
    /\ \E datadir_ok \in BOOLEAN :
          last' = Asked("validate", validate(last.config, datadir_ok))
    /\ db' = db /\ ActorsIdle

ForNetwork ==
    /\ last' = Asked("for_network", for_network(last.config.network))
    /\ db' = db /\ ActorsIdle

LocalhostPeers ==
    /\ last' = Asked("localhost_peers",
                     localhost_peers(for_network(last.config.network)))
    /\ db' = db /\ ActorsIdle

ConfigNext ==
    \/ EffectiveListenPort
    \/ ShouldUseDnsSeeds
    \/ AllCustomPeers
    \/ Validate
    \/ ForNetwork
    \/ LocalhostPeers

SpecConfig == InitConfig /\ [][ConfigNext]_vars

-----------------------------------------------------------------------------
(* Configuration: the derived values                                       *)

\* The default P2P port of each network.
DefaultPort(network) ==
    IF network = "mainnet" THEN 8333
    ELSE IF network = "testnet" THEN 18333
    ELSE 18444

\* C31: effective_listen_port returns the configured listen port when it is
\* not 0, and otherwise the default of the configured network: 8333 for
\* mainnet, 18333 for testnet, 18444 for regtest.
C31_EffectiveListenPort ==
    last.op = "effective_listen_port" =>
        last.out = IF last.config.network_config.listen_port # 0
                   THEN last.config.network_config.listen_port
                   ELSE DefaultPort(last.config.network)

\* With listen port 0 on mainnet the effective port is 8333.
C31_Witness ==
    /\ last.op = "effective_listen_port"
    /\ last.config.network = "mainnet"
    /\ last.config.network_config.listen_port = 0
    /\ last.out = 8333

\* C32: should_use_dns_seeds is true exactly when DNS seeds are enabled and
\* the network is mainnet or testnet, the networks whose constants have DNS
\* seeds; on regtest it is false even when they are enabled.
C32_DnsSeedsOnlyOffRegtest ==
    last.op = "should_use_dns_seeds" =>
        /\ last.out <=> (/\ last.config.network_config.enable_dns_seeds
                         /\ last.config.network # "regtest")
        /\ last.out <=> (/\ last.config.network_config.enable_dns_seeds
                         /\ uses_dns_seeds(for_network(last.config.network)))

\* On regtest with DNS seeds enabled the answer is false.
C32_Witness ==
    /\ last.op = "should_use_dns_seeds"
    /\ last.config.network = "regtest"
    /\ last.config.network_config.enable_dns_seeds
    /\ ~last.out

\* C33: all_custom_peers returns the configured custom peers in their
\* order, followed on regtest, and only there, by 127.0.0.1:<port> and
\* localhost:<port> with the effective listen port.
C33_AllCustomPeers ==
    last.op = "all_custom_peers" =>
        LET custom == last.config.network_config.custom_peers
            port == IF last.config.network_config.listen_port # 0
                    THEN last.config.network_config.listen_port
                    ELSE DefaultPort(last.config.network)
        IN last.out = IF last.config.network = "regtest"
                      THEN custom \o <<<<"127.0.0.1", port>>, <<"localhost", port>>>>
                      ELSE custom

\* On regtest with listen port 0 and two custom peers the result is the two
\* peers followed by the two localhost peers on port 18444.
C33_Witness ==
    /\ last.op = "all_custom_peers"
    /\ last.config.network = "regtest"
    /\ last.config.network_config.listen_port = 0
    /\ Len(last.config.network_config.custom_peers) = 2
    /\ last.out = last.config.network_config.custom_peers
                    \o <<<<"127.0.0.1", 18444>>, <<"localhost", 18444>>>>

\* Two of the configured ports are equal.
PortsCollide(config) ==
    \E i, j \in DOMAIN ports_of(config) :
        i < j /\ ports_of(config)[i] = ports_of(config)[j]

\* C34: validate returns InvalidValue for the field 'ports' exactly when
\* two of api.port, rpc.port, metrics.port, network_config.zmq.pub_port
\* (when set) and events.zmq.port are equal, whichever two and wherever they
\* stand; when they are pairwise distinct the port check passes.
C34_PortsChecked ==
    last.op = "validate" =>
        /\ (last.out.res = "InvalidValue" /\ last.out.field = "ports")
           <=> PortsCollide(last.config)
        /\ PortsCollide(last.config)
           => \E i, j \in DOMAIN ports_of(last.config) :
                 /\ i < j
                 /\ ports_of(last.config)[i] = last.out.value
                 /\ ports_of(last.config)[j] = last.out.value

\* The API port and the events ZMQ port, first and last of the list, are
\* the only two equal ports, and validate returned the ports error.
C34_Witness ==
    /\ last.op = "validate"
    /\ last.config.api.port = last.config.events.zmq.port
    /\ Cardinality(Range(ports_of(last.config))) = 4
    /\ Len(ports_of(last.config)) = 5
    /\ last.out.res = "InvalidValue" /\ last.out.field = "ports"

\* The configuration with the listen port left to the network's default.
WithoutListenPort(config) == [config EXCEPT !.network_config.listen_port = 0]

\* C40: on each network the default port of NetworkConstants::for_network
\* is what effective_listen_port returns for listen port 0; localhost_peers
\* is non-empty exactly on regtest, and there it is what all_custom_peers
\* appends to the custom peers when it uses the same port.
C40_ConstantsAgreeWithConfig ==
    /\ last.op = "for_network" =>
          last.out.default_port = effective_listen_port(WithoutListenPort(last.config))
    /\ last.op = "localhost_peers" =>
          /\ last.out # <<>> <=> last.config.network = "regtest"
          /\ last.config.network = "regtest" =>
                LET config == WithoutListenPort(last.config)
                    custom == config.network_config.custom_peers
                IN all_custom_peers(config) = custom \o last.out

\* On regtest localhost_peers returned the two localhost peers on port
\* 18444, for a configuration that has a custom peer of its own.
C40_Witness ==
    /\ last.op = "localhost_peers"
    /\ last.config.network = "regtest"
    /\ last.config.network_config.custom_peers # <<>>
    /\ last.out = <<<<"127.0.0.1", 18444>>, <<"localhost", 18444>>>>

-----------------------------------------------------------------------------
(* Event publishing: which failures publish reports                        *)

\* The positions of the publishers whose publish returned an error.
FailedIn(call) ==
    {i \in DOMAIN call.publishers :
        /\ call.publishers[i].enabled
        /\ PublisherPublish(call.publishers[i], call.event_type,
                            call.world.serde_ok, call.world.accept[i]).res # "Ok"}

\* C36: publish returns an error exactly when at least one publisher failed
\* and as many failed as there are registered publishers, the disabled ones
\* counted; so it returns success with no publisher registered, and with a
\* disabled publisher registered even if every enabled one failed. A
\* disabled publisher is never asked.
C36_FailsWhenAllRegisteredFail ==
    last.op = "publish" =>
        /\ Len(last.errors) = Cardinality(FailedIn(last))
        /\ last.res # "Ok" <=> (/\ FailedIn(last) # {}
                                /\ Cardinality(FailedIn(last)) = Len(last.publishers))
        /\ last.publishers = <<>> => last.res = "Ok"
        /\ (\E i \in DOMAIN last.publishers : ~last.publishers[i].enabled)
           => last.res = "Ok"
        /\ \A i \in Range(last.asked) : last.publishers[i].enabled

\* Of two registered publishers one is disabled and the enabled one
\* failed: publish returned success.
C36_Witness ==
    /\ last.op = "publish"
    /\ Len(last.publishers) = 2
    /\ Len(last.asked) = 1
    /\ Len(last.errors) = 1
    /\ last.res = "Ok"

\* The asked positions that hold a webhook publisher.
WebhooksAsked(call) ==
    {i \in Range(call.asked) : call.publishers[i].name = "webhook"}

\* C37: the webhook publisher returns success even when no endpoint took
\* the event after all retries, and an error only when the event cannot be
\* serialized: the errors publish collects from webhook publishers are
\* serialization errors, one per webhook publisher asked, and none when the
\* event serializes.
C37_WebhookFailsOnlyOnSerialization ==
    last.op = "publish" =>
        /\ Cardinality({k \in DOMAIN last.errors : last.errors[k] = "Serialization"})
             = IF last.world.serde_ok THEN 0
               ELSE Cardinality(WebhooksAsked(last))
        /\ \A k \in DOMAIN last.errors :
              last.errors[k] \in {"Serialization", "KubernetesApi"}
        /\ (/\ last.world.serde_ok
            /\ WebhooksAsked(last) = Range(last.asked))
           => last.res = "Ok"

\* The one registered publisher, an enabled webhook, reached its endpoint
\* in no attempt, and publish collected no error and returned success.
C37_Witness ==
    /\ last.op = "publish"
    /\ Len(last.publishers) = 1
    /\ WebhooksAsked(last) = {1}
    /\ last.world.serde_ok /\ last.world.accept[1] = 0
    /\ last.delivered = {}
    /\ last.errors = <<>> /\ last.res = "Ok"

-----------------------------------------------------------------------------
(* The retry loop of the webhook publisher, step by step                   *)

\* The width in bits of the counter attempts and of retry_attempts: u32 in
\* the source, narrowed here so that the largest value is within reach.
CounterBits == 2

\* The largest value of the counter (u32::MAX in the source).
CounterMax == 2 ^ CounterBits - 1

\* A call of WebhookEventPublisher::publish at the point pc, for a publisher
\* with the given number of endpoints, built with or without overflow checks.
Loop(pc, self, endpoint, attempts, success, posts, res) ==
    [res |-> res, op |-> "webhook_publish", endpoints |-> self.endpoints,
     retry_attempts |-> self.retry_attempts, posts |-> posts, pc |-> pc,
     endpoint |-> endpoint, attempts |-> attempts, success |-> success,
     overflow_checks |-> self.overflow_checks]

\* A webhook publisher with up to two endpoints and any retry_attempts,
\* about to publish an event.
InitWebhook ==
    /\ db = EmptyDb
    /\ \E endpoints \in 0..2, retry_attempts \in 0..CounterMax,
          overflow_checks \in BOOLEAN :
          last = Loop("serialize",
                      [endpoints |-> endpoints, retry_attempts |-> retry_attempts,
                       overflow_checks |-> overflow_checks],
                      1, 0, FALSE, [e \in 1..endpoints |-> 0], "")
    /\ sent = <<>>
    /\ mailbox = [a \in Actors |-> <<>>]
    /\ resp = <<>>

\* serde_json::to_string(event)?: a failure is the result of publish.
WebhookSerialize ==
    /\ last.op = "webhook_publish" /\ last.pc = "serialize"
    /\ \E serde_ok \in BOOLEAN :
          last' = IF serde_ok THEN [last EXCEPT !.pc = "for"]
                  ELSE [last EXCEPT !.pc = "done", !.res = "Serialization"]
    /\ db' = db /\ ActorsIdle

\* for endpoint in &self.endpoints: the next endpoint starts with no
\* attempt made; after the last one publish returns Ok(()).
WebhookForEndpoint ==
    /\ last.op = "webhook_publish" /\ last.pc = "for"
    /\ last' = IF last.endpoint > last.endpoints
               THEN [last EXCEPT !.pc = "done", !.res = "Ok"]
               ELSE [last EXCEPT !.pc = "while", !.attempts = 0,
                                 !.success = FALSE]
    /\ db' = db /\ ActorsIdle

\* One turn of while attempts <= self.retry_attempts && !success: the event
\* is posted, the answer is a success or not, and attempts += 1, which at
\* the counter's largest value panics with overflow checks and wraps to 0
\* without them.
WebhookPost ==
    /\ last.op = "webhook_publish" /\ last.pc = "while"
    /\ last.attempts <= last.retry_attempts /\ ~last.success
    /\ last.posts[last.endpoint] <= CounterMax + 1
    /\ \E ok \in BOOLEAN :
          last' = [last EXCEPT
                     !.posts[last.endpoint] = @ + 1,
                     !.success = ok,
                     !.attempts = (@ + 1) % (CounterMax + 1),
                     !.pc = IF last.attempts = CounterMax /\ last.overflow_checks
                            THEN "panicked" ELSE "while"]
    /\ db' = db /\ ActorsIdle

\* The while loop is left: an endpoint that was not reached is logged, and
\* the for loop goes on.
WebhookEndpointDone ==
    /\ last.op = "webhook_publish" /\ last.pc = "while"
    /\ ~(last.attempts <= last.retry_attempts /\ ~last.success)
    /\ last' = [last EXCEPT !.pc = "for", !.endpoint = @ + 1]
    /\ db' = db /\ ActorsIdle

WebhookNext ==
    \/ WebhookSerialize
    \/ WebhookForEndpoint
    \/ WebhookPost
    \/ WebhookEndpointDone

SpecWebhook == InitWebhook /\ [][WebhookNext]_vars

\* C35: for each endpoint the webhook publisher makes at least one and at
\* most retry_attempts + 1 posts, stops at the first success and goes on to
\* the next endpoint; the call runs to its end and does not abort.
C35_BoundedAttempts ==
    last.op = "webhook_publish" =>
        /\ last.pc # "panicked"
        /\ \A e \in DOMAIN last.posts :
              /\ last.posts[e] <= last.retry_attempts + 1
              /\ (e < last.endpoint /\ last.pc # "serialize") => last.posts[e] >= 1
        /\ (last.pc = "done" /\ last.res = "Ok") => last.endpoint = last.endpoints + 1

-----------------------------------------------------------------------------
(* C38: the regions are isolated                                           *)

\* What a region holds under a key: the value, or nothing.
Held(d, cf, key) ==
    IF cf \in DOMAIN d THEN get_cf_value(d[cf], key) ELSE <<>>

\* C38: a put or a delete on a key in one region leaves every key of every
\* other region, and every other key of its own region, as it was; no region
\* appears or disappears.
C38_RegionsIsolated ==
    [][last'.op \in {"put", "delete"} =>
          /\ DOMAIN db' = DOMAIN db
          /\ \A cf \in DOMAIN db : \A key \in Keys :
                (cf # last'.cf \/ key # last'.key) =>
                    Held(db', cf, key) = Held(db, cf, key)]_vars

\* A put has just stored a key that another region holds with a different
\* value and that a third region does not hold.
C38_Witness ==
    /\ last.op = "put" /\ last.res = "Ok"
    /\ Held(db, last.cf, last.key) = <<last.value>>
    /\ \E cf \in DOMAIN db \ {last.cf} :
          Held(db, cf, last.key) \notin {<<>>, <<last.value>>}
    /\ \E cf \in DOMAIN db \ {last.cf} : Held(db, cf, last.key) = <<>>

-----------------------------------------------------------------------------
(* C39: what handling StoreBlock changes                                   *)

\* The StoreBlock requests to an actor that are answered in this step.
StoreBlockHandledBy(a) ==
    {id \in AnsweredInStep : sent[id].kind = "StoreBlock" /\ sent[id].to = a}

\* Every entry of the database except the one under this key of the blocks
\* column family is after the step what it was before.
OnlyBlockEntryChanges(block_key) ==
    /\ DOMAIN db' = DOMAIN db
    /\ \A cf \in DOMAIN db : \A key \in DOMAIN db[cf] \cup DOMAIN db'[cf] :
          (cf # CF_BLOCKS \/ key # block_key) =>
              Held(db', cf, key) = Held(db, cf, key)

\* C39: the storage actor's StoreBlock changes at most the blocks entry under
\* the block's hash, and nothing when that entry already holds the block;
\* the chain actor's StoreBlock changes no stored data.
C39_StoreBlockFrame ==
    [][/\ \A id \in StoreBlockHandledBy("storage") :
             LET block_key == ToByteArray(BlockHash(sent[id].block)) IN
             /\ OnlyBlockEntryChanges(block_key)
             /\ Held(db, CF_BLOCKS, block_key) = <<SerializeBlock(sent[id].block)>>
                   => db' = db
       /\ StoreBlockHandledBy("chain") # {} => db' = db]_vars

\* The same block was stored twice by the storage actor, and the blocks
\* region holds it once and nothing else.
C39_Witness ==
    /\ \E i, j \in DOMAIN sent :
          /\ i < j
          /\ sent[i].kind = "StoreBlock" /\ sent[i].to = "storage"
          /\ sent[j] = sent[i]
          /\ resp[i] = <<Ok(<<>>)>> /\ resp[j] = <<Ok(<<>>)>>
          /\ Held(db, CF_BLOCKS, ToByteArray(BlockHash(sent[i].block)))
                = <<SerializeBlock(sent[i].block)>>
    /\ Cardinality(DOMAIN db[CF_BLOCKS]) = 1

====
